---- MODULE Spec2Model ----
(***************************************************************************)
(* Model of the SCPI instrument wrappers of the repository: the overlapped *)
(* acquisition protocol (startOverlapped / waitOverlappedDone) of          *)
(* Daq34972, Dvm34411 and Src2722 with the definite-length-block (DLB)     *)
(* decoding they share by copy, and the configuration, channel-list and    *)
(* switch methods of Daq34972, Dvm34411 and Daq3706.                       *)
(*                                                                         *)
(* Python strings are sequences of one-character strings, so that          *)
(* indexing, slicing, split(), strip(), int() and float() are computed,    *)
(* not assumed.  One wrapper call is in progress at a time; every access   *)
(* to the device handle is appended to io in program order.                *)
(***************************************************************************)
EXTENDS Integers, Sequences, FiniteSets, TLC

VARIABLES
    self,       \* the wrapper class whose method is running
    handle,     \* self.handle: "None", or "open" once get_instrument has returned
    opened,     \* self.opened of a Daq3706 or a SrcHameg
    function,   \* self.function of a Gen33220
    device,     \* the function the generator itself is set to
    slots,      \* self.slots of a Daq3706 (no other wrapper has the attribute)
    op,         \* the method in progress ("none" between calls)
    pc,         \* position inside the method
    args,       \* the arguments of the call
    io,         \* every handle.write / handle.ask issued by the call, in order
    elapsed,    \* time.time() - startTime as last read by the call
    measured,   \* local `measured` of the polling loop (None before the first poll)
    replies,    \* the replies received to 'R? 1;', in order
    samples,    \* local `samples`
    result,     \* how the call ended
    errorCount, \* Err.errorCount of error.py
    logged,     \* the lines the call passed to Log.logError / Log.logText, in order
    outOfLimits \* how many chkLimits calls so far had a value out of limits

vars ==
    <<self, handle, opened, function, device, slots, op, pc, args, io, elapsed, measured, replies, samples, result,
      errorCount, logged, outOfLimits>>

-----------------------------------------------------------------------------
(* Bounds of the model *)

MaxCount == 2
MaxTimeout == 1
MaxPolls == 2
MaxPeriod == 2
MaxTotal == 3
MaxLen == 4
MaxItems == 2
MaxErrors == 2

MaxElapsed == MaxTimeout + 1

Wrappers == {"Daq34972", "Dvm34411", "Src2722"}

-----------------------------------------------------------------------------
(* Python string primitives *)

Digits == {"0", "1", "2", "3", "4", "5", "6", "7", "8", "9"}

DigitVal(c) ==
    CASE c = "0" -> 0 [] c = "1" -> 1 [] c = "2" -> 2 [] c = "3" -> 3
      [] c = "4" -> 4 [] c = "5" -> 5 [] c = "6" -> 6 [] c = "7" -> 7
      [] c = "8" -> 8 [] c = "9" -> 9

DigitChar(n) == CHOOSE c \in Digits : DigitVal(c) = n

Whitespace == {" ", "\n", "\r", "\t"}

\* s[k:] of Python, k >= 0 (an index past the end gives the empty string)
SliceFrom(s, k) == IF k >= Len(s) THEN <<>> ELSE SubSeq(s, k + 1, Len(s))

RECURSIVE LStrip(_)
LStrip(s) ==
    IF s # <<>> /\ s[1] \in Whitespace THEN LStrip(Tail(s)) ELSE s

RECURSIVE RStrip(_)
RStrip(s) ==
    IF s # <<>> /\ s[Len(s)] \in Whitespace
    THEN RStrip(SubSeq(s, 1, Len(s) - 1))
    ELSE s

\* str.strip()
Strip(s) == RStrip(LStrip(s))

AllDigits(s) == \A i \in 1..Len(s) : s[i] \in Digits

RECURSIVE DecVal(_)
DecVal(s) ==
    IF s = <<>> THEN 0
    ELSE 10 * DecVal(SubSeq(s, 1, Len(s) - 1)) + DigitVal(s[Len(s)])

\* position of the first c in s, 0 when there is none
IndexOf(s, c) ==
    IF \E i \in 1..Len(s) : s[i] = c
    THEN CHOOSE i \in 1..Len(s) : s[i] = c /\ \A j \in 1..(i - 1) : s[j] # c
    ELSE 0

Unsigned(s) == IF s # <<>> /\ s[1] \in {"+", "-"} THEN Tail(s) ELSE s
Sign(s) == IF s # <<>> /\ s[1] = "-" THEN -1 ELSE 1

\* int(str): surrounding whitespace allowed, optional sign, decimal digits
IntOk(s) == LET t == Unsigned(Strip(s)) IN t # <<>> /\ AllDigits(t)
IntVal(s) == LET t == Strip(s) IN Sign(t) * DecVal(Unsigned(t))

\* str(n), '%d' % n of an int
RECURSIVE NatStr(_)
NatStr(n) ==
    IF n < 10 THEN <<DigitChar(n)>> ELSE NatStr(n \div 10) \o <<DigitChar(n % 10)>>

IntStr(n) == IF n < 0 THEN <<"-">> \o NatStr(-n) ELSE NatStr(n)

\* s.split(c) for a one-character separator: always at least one part
RECURSIVE Split(_, _)
Split(s, c) ==
    IF IndexOf(s, c) = 0 THEN <<s>>
    ELSE <<SubSeq(s, 1, IndexOf(s, c) - 1)>> \o Split(SliceFrom(s, IndexOf(s, c)), c)

\* c.join(parts)
RECURSIVE Join(_, _)
Join(parts, c) ==
    IF parts = <<>> THEN <<>>
    ELSE IF Len(parts) = 1 THEN parts[1]
    ELSE parts[1] \o <<c>> \o Join(Tail(parts), c)

\* A float is mant * 10^exp, kept normalised (mant has no trailing zero).
RECURSIVE Normal(_, _)
Normal(m, e) ==
    IF m = 0 THEN [mant |-> 0, exp |-> 0]
    ELSE IF m % 10 = 0 THEN Normal(m \div 10, e + 1)
    ELSE [mant |-> m, exp |-> e]

ExpPos(t) ==
    LET u == IndexOf(t, "E") l == IndexOf(t, "e")
    IN  IF u = 0 THEN l ELSE IF l = 0 THEN u ELSE IF u < l THEN u ELSE l

MantPart(t) == IF ExpPos(t) = 0 THEN t ELSE SubSeq(t, 1, ExpPos(t) - 1)
ExpPart(t) == IF ExpPos(t) = 0 THEN <<>> ELSE SliceFrom(t, ExpPos(t))
IntDigits(m) == IF IndexOf(m, ".") = 0 THEN m ELSE SubSeq(m, 1, IndexOf(m, ".") - 1)
FracDigits(m) == IF IndexOf(m, ".") = 0 THEN <<>> ELSE SliceFrom(m, IndexOf(m, "."))

\* float(str): surrounding whitespace allowed, [sign] digits [. digits] [E [sign] digits]
FloatOk(s) ==
    LET t == Unsigned(Strip(s))
        m == MantPart(t)
    IN  /\ AllDigits(IntDigits(m))
        /\ AllDigits(FracDigits(m))
        /\ Len(IntDigits(m)) + Len(FracDigits(m)) >= 1
        /\ ExpPos(t) # 0 => IntOk(ExpPart(t)) /\ ExpPart(t) = Strip(ExpPart(t))

FloatVal(s) ==
    LET t == Unsigned(Strip(s))
        m == MantPart(t)
        x == IF ExpPos(t) = 0 THEN 0 ELSE IntVal(ExpPart(t))
    IN  Normal(Sign(Strip(s)) * DecVal(IntDigits(m) \o FracDigits(m)),
               x - Len(FracDigits(m)))

\* the number mant * 10^exp of a literal such as .02 or 1e8
Dec(m, e) == Normal(m, e)

RECURSIVE Pow10(_)
Pow10(k) == IF k = 0 THEN 1 ELSE 10 * Pow10(k - 1)

RECURSIVE NDigits(_)
NDigits(n) == IF n < 10 THEN 1 ELSE 1 + NDigits(n \div 10)

\* position of the leading digit of a positive number
Magnitude(a) == a.exp + NDigits(a.mant)

Negated(a) == [mant |-> -a.mant, exp |-> a.exp]

LtPos(a, b) ==
    IF Magnitude(a) # Magnitude(b) THEN Magnitude(a) < Magnitude(b)
    ELSE LET m == IF a.exp < b.exp THEN a.exp ELSE b.exp
         IN  a.mant * Pow10(a.exp - m) < b.mant * Pow10(b.exp - m)

\* a < b of two numbers
Lt(a, b) ==
    IF a.mant > 0 /\ b.mant > 0 THEN LtPos(a, b)
    ELSE IF a.mant < 0 /\ b.mant < 0 THEN LtPos(Negated(b), Negated(a))
    ELSE a.mant < b.mant

-----------------------------------------------------------------------------
(* Python values of the model *)

\* a float reading, and a str reading (Dvm34411 and Src2722 keep the text)
Float(f) == [t |-> "float", mant |-> f.mant, exp |-> f.exp, text |-> <<>>]
Str(s) == [t |-> "str", mant |-> 0, exp |-> 0, text |-> s]

\* an int where a number is expected
PyInt(n) == [t |-> "int", mant |-> Normal(n, 0).mant, exp |-> Normal(n, 0).exp, text |-> <<>>]

\* the value False where a reading is expected
PyFalse == [t |-> "bool", mant |-> 0, exp |-> 0, text |-> <<>>]

\* How a method ends: by return (of a bool, a list or a reading) or by
\* raise (value is then the exception class).  index is the sample index the
\* caller can learn from the outcome: no outcome of the wrappers carries one.
Running == [kind |-> "running", type |-> "none", value |-> "none", index |-> <<>>]
ReturnFalse == [kind |-> "return", type |-> "bool", value |-> FALSE, index |-> <<>>]
ReturnTrue == [kind |-> "return", type |-> "bool", value |-> TRUE, index |-> <<>>]
ReturnList(l) == [kind |-> "return", type |-> "list", value |-> l, index |-> <<>>]
ReturnReading(v) == [kind |-> "return", type |-> "reading", value |-> v, index |-> <<>>]
Raise(e) == [kind |-> "raise", type |-> "exception", value |-> e, index |-> <<>>]

\* `return reading` where reading is a float or False
ReturnValue(v) == IF v.t = "bool" THEN ReturnFalse ELSE ReturnReading(v)

ReturnedFalse(r) == r.kind = "return" /\ r.type = "bool" /\ r.value = FALSE
ReturnedTrue(r) == r.kind = "return" /\ r.type = "bool" /\ r.value = TRUE
ReturnedList(r) == r.kind = "return" /\ r.type = "list"
Raised(r) == r.kind = "raise"
RaisedExc(r, e) == r.kind = "raise" /\ r.value = e

\* One access to the device handle: handle.write(cmd) or handle.ask(cmd).
\* ok is FALSE when the transport raised.  arg is the number formatted into
\* the command text (den = 0 when the command has none).  got is <<n>> when
\* the reply to a counter query converted to the int n, <<>> otherwise.
NoArg == [num |-> 0, den |-> 0]
Write(c, a, ok) == [m |-> "write", cmd |-> c, arg |-> a, ok |-> ok, got |-> <<>>]
Ask(c, ok) == [m |-> "ask", cmd |-> c, arg |-> NoArg, ok |-> ok, got |-> <<>>]
AskCount(c, n) == [m |-> "ask", cmd |-> c, arg |-> NoArg, ok |-> TRUE, got |-> <<n>>]

CountCmd(log, c) == Cardinality({i \in 1..Len(log) : log[i].cmd = c})

-----------------------------------------------------------------------------
(* Definite-length-block decoding, as each wrapper's copy does it *)

\* the value of a decoded block, or how the decoding ended the method
Decoded(v) == [kind |-> "decoded", type |-> "reading", value |-> v, index |-> <<>>]

\* `reading[0] != '#'`
MissingMarker(reading) == reading[1] # "#"

\* `digits = int(reading[1])`
BlockDigits(reading) == IntVal(<<reading[2]>>)

\* `reading = reading[2 + digits:]`
BlockPayload(reading) == SliceFrom(reading, 2 + BlockDigits(reading))

\* lines shared by every copy: the marker test and the header skip.
\* reading[0] and reading[1] raise IndexError past the end of the string,
\* int() raises ValueError on a non-digit; neither is inside a try.
HeaderOutcome(reading) ==
    IF Len(reading) = 0 THEN Raise("IndexError")
    ELSE IF MissingMarker(reading) THEN ReturnFalse
    ELSE IF Len(reading) < 2 THEN Raise("IndexError")
    ELSE IF ~IntOk(<<reading[2]>>) THEN Raise("ValueError")
    ELSE Decoded(Str(BlockPayload(reading)))

\* Daq34972.waitOverlappedDone: strip, float(), re-raise on failure
DaqSample(payload) ==
    IF FloatOk(Strip(payload)) THEN Decoded(Float(FloatVal(Strip(payload))))
    ELSE Raise("ValueError")

\* Dvm34411.waitOverlappedDone, Src2722.waitOverlappedDone: the stripped text
TextSample(payload) == Decoded(Str(Strip(payload)))

\* Dvm34411.read: float() of the unstripped payload, outside any try
ReadSample(payload) ==
    IF FloatOk(payload) THEN Decoded(Float(FloatVal(payload)))
    ELSE Raise("ValueError")

\* the body of the drain loop after the ask
DecodeBlock(w, reading) ==
    LET h == HeaderOutcome(reading)
    IN  IF h.kind # "decoded" THEN h
        ELSE IF w = "Daq34972" THEN DaqSample(h.value.text)
        ELSE TextSample(h.value.text)

\* the tail of Dvm34411.read after the ask
DecodeRead(reading) ==
    LET h == HeaderOutcome(reading)
    IN  IF h.kind # "decoded" THEN h ELSE ReadSample(h.value.text)

-----------------------------------------------------------------------------
(* Channel numbers and channel lists *)

\* the card types scanSlots can store, as the text left by strip()
EmptySlot == <<"E", "m", "p", "t", "y", " ", "S", "l", "o", "t">>
Card3720 == <<"3", "7", "2", "0">>
Card3721 == <<"3", "7", "2", "1">>
Card3722 == <<"3", "7", "2", "2">>
Card3723 == <<"3", "7", "2", "3">>

\* `911 <= switch <= 916`
Backplane(switch) == 911 <= switch /\ switch <= 916

\* the `if / elif / else` of checkSwitchNumber for one card type; the else
\* branch of the 3722 card returns the undefined name False4
CardOutcome(card, switch) ==
    CASE card = Card3722 ->
           IF switch <= 96 /\ switch >= 1 THEN ReturnTrue
           ELSE IF Backplane(switch) THEN ReturnTrue
           ELSE Raise("NameError")
      [] card = Card3720 ->
           IF switch <= 60 /\ switch >= 1 THEN ReturnTrue
           ELSE IF Backplane(switch) THEN ReturnTrue
           ELSE ReturnFalse
      [] card = Card3721 ->
           IF switch <= 42 /\ switch >= 1 THEN ReturnTrue
           ELSE IF Backplane(switch) THEN ReturnTrue
           ELSE ReturnFalse
      [] card = Card3723 ->
           IF switch <= 60 /\ switch >= 1 THEN ReturnTrue
           ELSE IF Backplane(switch) THEN ReturnTrue
           ELSE ReturnFalse
      [] OTHER -> ReturnFalse

\* Daq3706.checkSwitchNumber(switch) with self.slots = sl
CheckSwitchNumber(sl, switch) ==
    LET string == IntStr(switch)
        slot == IntVal(<<string[1]>>)
    IN  IF Len(sl) # 6 THEN ReturnFalse
        ELSE IF ~IntOk(<<string[1]>>) THEN Raise("ValueError")
        ELSE IF ~IntOk(SliceFrom(string, 1)) THEN Raise("ValueError")
        ELSE IF slot = 0 \/ slot > 6 THEN ReturnFalse
        ELSE IF sl[slot] = EmptySlot THEN ReturnFalse
        ELSE CardOutcome(sl[slot], IntVal(SliceFrom(string, 1)))

\* Daq34972.controlSwitch, Daq34972.readSwitch: `101 <= switch <= 399`
SwitchInBank(switch) == 101 <= switch /\ switch <= 399

\* Daq34972.checkList, range endpoints:
\* `101 <= fromCh <= 399 and 101 <= toCh <= 399`
EndpointsInBank(fromCh, toCh) ==
    101 <= fromCh /\ fromCh <= 399 /\ 101 <= toCh /\ toCh <= 399

\* Daq34972.checkList, single item: `101 <= chan <= 440`
ChanInBank(chan) == 101 <= chan /\ chan <= 440

\* `if fromCh > toCh:`
Reversed(fromCh, toCh) == fromCh > toCh

\* the validity test of a range item after the order test
RangeOutcome(w, sl, fromCh, toCh) ==
    IF w = "Daq3706"
    THEN LET f == CheckSwitchNumber(sl, fromCh)
             t == CheckSwitchNumber(sl, toCh)
         IN  IF Raised(f) THEN f
             ELSE IF ReturnedFalse(f) THEN ReturnFalse
             ELSE IF Raised(t) THEN t
             ELSE IF ReturnedFalse(t) THEN ReturnFalse
             ELSE Running
    ELSE IF ~EndpointsInBank(fromCh, toCh) THEN ReturnFalse ELSE Running

\* the validity test of a single item; Daq3706 calls the undefined
\* method self.chsckSwitchNumber
ChanOutcome(w, sl, chan) ==
    IF w = "Daq3706" THEN Raise("AttributeError")
    ELSE IF ~ChanInBank(chan) THEN ReturnFalse ELSE Running

\* the body of `for item in items:`; Running when the loop goes on
ItemOutcome(w, sl, text) ==
    LET item == Strip(text)
        parts == Split(item, ":")
    IN  IF IndexOf(item, ":") # 0
        THEN IF Len(parts) # 2 THEN Raise("ValueError")
             ELSE IF ~IntOk(parts[1]) \/ ~IntOk(parts[2]) THEN Raise("ValueError")
             ELSE IF Reversed(IntVal(parts[1]), IntVal(parts[2])) THEN ReturnFalse
             ELSE RangeOutcome(w, sl, IntVal(parts[1]), IntVal(parts[2]))
        ELSE IF ~IntOk(item) THEN Raise("ValueError")
             ELSE ChanOutcome(w, sl, IntVal(item))

RECURSIVE ItemsOutcome(_, _, _)
ItemsOutcome(w, sl, items) ==
    IF items = <<>> THEN ReturnTrue
    ELSE IF ItemOutcome(w, sl, Head(items)).kind # "running"
         THEN ItemOutcome(w, sl, Head(items))
         ELSE ItemsOutcome(w, sl, Tail(items))

\* checkList(chlist) of Daq34972 and Daq3706
CheckList(w, sl, chlist) == ItemsOutcome(w, sl, Split(chlist, ","))

-----------------------------------------------------------------------------
(* Function tables of configScan, config and configDmm *)

\* A function name: its spelling folded to upper case, and the case it is
\* written in.  upper() and lower() change the case only.
Name(n, c) == [name |-> n, case |-> c]
Upper(f) == [f EXCEPT !.case = "upper"]
Lower(f) == [f EXCEPT !.case = "lower"]

\* None, and the str and number values of rng and nplc
None == [t |-> "none", mant |-> 0, exp |-> 0, text |-> <<>>]
AUTO == Str(<<"A", "U", "T", "O">>)
auto == Str(<<"a", "u", "t", "o">>)
ColonAUTO == Str(<<":", "A", "U", "T", "O">>)
Number(m, e) == Float(Dec(m, e))

\* `ranges` of Daq34972.configScan
Ranges34972 ==
    ("CURR:DC" :> <<Dec(1, -2), Dec(1, 0)>>) @@
    ("CURR:AC" :> <<Dec(1, -2), Dec(1, 0)>>) @@
    ("DIG" :> <<>>) @@
    ("FREQ" :> <<>>) @@
    ("FRES" :> <<Dec(100, 0), Dec(1, 8)>>) @@
    ("PER" :> <<>>) @@
    ("RES" :> <<Dec(100, 0), Dec(1, 8)>>) @@
    ("TEMP" :> <<>>) @@
    ("TOT" :> <<>>) @@
    ("VOLT:DC" :> <<Dec(1, -1), Dec(300, 0)>>) @@
    ("VOLT:AC" :> <<Dec(1, -1), Dec(300, 0)>>)

\* `ranges` of Dvm34411.config
Ranges34411 ==
    ("CAP" :> <<Dec(1, -9), Dec(1, -5)>>) @@
    ("CURR:DC" :> <<Dec(1, -5), Dec(3, 0)>>) @@
    ("CURR:AC" :> <<Dec(1, -5), Dec(3, 0)>>) @@
    ("FRES" :> <<Dec(100, 0), Dec(1, 9)>>) @@
    ("RES" :> <<Dec(100, 0), Dec(1, 9)>>) @@
    ("VOLT:DC" :> <<Dec(1, -1), Dec(1000, 0)>>) @@
    ("VOLT:AC" :> <<Dec(1, -1), Dec(750, 0)>>) @@
    ("FREQ" :> <<>>) @@
    ("PER" :> <<>>) @@
    ("CON" :> <<>>) @@
    ("DIOD" :> <<>>) @@
    ("TEMP" :> <<>>)

\* `ranges` of Daq3706.configDmm (the keys are written in lower case)
Ranges3706 ==
    ("ACCURRENT" :> <<Dec(0, 0), Dec(31, -1)>>) @@
    ("ACVOLTS" :> <<Dec(0, 0), Dec(303, 0)>>) @@
    ("COMMONSIDEOHMS" :> <<Dec(0, 0), Dec(120, 6)>>) @@
    ("DCCURRENT" :> <<Dec(0, 0), Dec(31, -1)>>) @@
    ("DCVOLTS" :> <<Dec(0, 0), Dec(303, 0)>>) @@
    ("FOURWIREOHMS" :> <<Dec(0, 0), Dec(120, 6)>>) @@
    ("FREQUENCY" :> <<>>) @@
    ("PERIOD" :> <<>>) @@
    ("TEMPERATURE" :> <<>>) @@
    ("TWOWIREOHMS" :> <<Dec(0, 0), Dec(120, 6)>>)

ranges(w) ==
    CASE w = "Daq34972" -> Ranges34972
      [] w = "Dvm34411" -> Ranges34411
      [] w = "Daq3706" -> Ranges3706

\* the case the keys and tuples of a wrapper are written in
KeyCase(w) == IF w = "Daq3706" THEN "lower" ELSE "upper"

\* `func = func.upper()`, `func = func.lower()`
Normalised(w, f) == IF w = "Daq3706" THEN Lower(f) ELSE Upper(f)

\* `func in list(ranges.keys())`
InTable(w, f) == f.case = KeyCase(w) /\ f.name \in DOMAIN ranges(w)

\* `func in (...)` for a tuple of names of wrapper w
InTuple(w, f, names) == f.case = KeyCase(w) /\ f.name \in names

\* `if func in list(ranges.keys()) == False:` is the chained comparison
\* (func in keys) and (keys == False), and a list never equals False
IllegalFunction(w, f) == InTable(w, f) /\ FALSE

\* fault variant: TEMP is left out of noRange
noRangeButTemp(w) ==
    CASE w = "Daq34972" -> {"DIG", "FREQ", "PER", "TOT"}
      [] w = "Dvm34411" -> {"CON", "DIOD", "FREQ", "PER"}
      [] w = "Daq3706" -> {"PERIOD", "FREQUENCY"}

\* `noRange`
noRange(w) ==
    CASE w = "Daq34972" -> {"DIG", "FREQ", "PER", "TEMP", "TOT"}
      [] w = "Dvm34411" -> {"CON", "DIOD", "FREQ", "PER", "TEMP"}
      [] w = "Daq3706" -> {"PERIOD", "TEMPERATURE", "FREQUENCY"}

\* fault variant: TEMP, which has no range, is left out of hasNplc
hasNplcAndRange(w) ==
    IF w = "Daq3706" THEN {} ELSE {"VOLT:DC", "CURR:DC", "RES", "FRES"}

\* `hasNplc` of configScan and config; configDmm has `noNplc` instead
hasNplc(w) ==
    CASE w = "Daq34972" -> {"VOLT:DC", "CURR:DC", "RES", "FRES", "TEMP"}
      [] w = "Dvm34411" -> {"VOLT:DC", "CURR:DC", "RES", "FRES", "TEMP"}
      [] w = "Daq3706" -> {}

noNplc == {"FREQUENCY", "PERIOD"}

\* the function takes the branch that checks and writes nplc
NplcSupported(w, f) ==
    IF w = "Daq3706" THEN ~InTuple(w, f, noNplc) ELSE InTuple(w, f, hasNplc(w))

\* the bounds in `if nplc < .02 or nplc > 200:` and its copies
NplcBounds(w) ==
    CASE w = "Daq34972" -> <<Dec(2, -2), Dec(200, 0)>>
      [] w = "Dvm34411" -> <<Dec(1, -3), Dec(100, 0)>>
      [] w = "Daq3706" -> <<Dec(2, -1), Dec(200, 0)>>

\* fault variant: the sentinel is expected in the other case
SentinelInOtherCase(w) == IF w = "Daq3706" THEN AUTO ELSE auto

\* the value `rng == ...` is compared with
Sentinel(w) == IF w = "Daq3706" THEN auto ELSE AUTO

\* fault variant: the bounds themselves are refused
OutsideOrOnBounds(x, lo, hi) == ~Lt(lo, x) \/ ~Lt(x, hi)

\* `rng < minR or rng > maxR`, `nplc < .02 or nplc > 200`
OutOfBounds(x, lo, hi) == Lt(x, lo) \/ Lt(hi, x)

-----------------------------------------------------------------------------
(* configScan(scanList, func, rng, nplc), config(func, rng, nplc, aZero), *)
(* configDmm(func, rng, nplc)                                             *)

\* fault variant: the try block is entered before the last check
WriteBeforeLastCheck(w) ==
    IF w = "Daq34972" THEN <<"func", "range", "nplc", "write", "list">>
    ELSE <<"func", "range", "write", "nplc">>

\* the statements of the method in source order: the four checks (three
\* where there is no scan list), then the writes of the try block
Phases(w) ==
    IF w = "Daq34972" THEN <<"func", "range", "nplc", "list", "write">>
    ELSE <<"func", "range", "nplc", "write">>

ConfigOp(w) ==
    CASE w = "Daq34972" -> "configScan"
      [] w = "Dvm34411" -> "config"
      [] w = "Daq3706" -> "configDmm"

\* the illegal-function test
CheckFunc(w, a) ==
    IF IllegalFunction(w, Normalised(w, a.func)) THEN ReturnFalse ELSE Running

\* the range block: Running when the method goes on.  ranges[func] raises
\* KeyError for a name that is no key, the unpacking of () raises
\* ValueError, and a str compared with a number raises TypeError.
CheckRange(w, a) ==
    LET f == Normalised(w, a.func)
    IN  IF InTuple(w, f, noRange(w)) THEN Running
        ELSE IF a.rng = Sentinel(w) THEN Running
        ELSE IF ~InTable(w, f) THEN Raise("KeyError")
        ELSE IF ranges(w)[f.name] = <<>> THEN Raise("ValueError")
        ELSE IF a.rng.t # "float" THEN Raise("TypeError")
        ELSE IF OutOfBounds(a.rng, ranges(w)[f.name][1], ranges(w)[f.name][2])
        THEN ReturnFalse
        ELSE Running

\* the NPLC block
CheckNplc(w, a) ==
    IF NplcSupported(w, Normalised(w, a.func))
       /\ OutOfBounds(a.nplc, NplcBounds(w)[1], NplcBounds(w)[2])
    THEN ReturnFalse
    ELSE Running

\* `if self.checkList(scanList) == False:`
CheckScanList(w, sl, a) ==
    IF Raised(CheckList(w, sl, a.scanList)) THEN CheckList(w, sl, a.scanList)
    ELSE IF ReturnedFalse(CheckList(w, sl, a.scanList)) THEN ReturnFalse
    ELSE Running

CheckOutcome(w, sl, a, phase) ==
    CASE phase = "func" -> CheckFunc(w, a)
      [] phase = "range" -> CheckRange(w, a)
      [] phase = "nplc" -> CheckNplc(w, a)
      [] phase = "list" -> CheckScanList(w, sl, a)

\* the values formatted into a command text
Fmt(f, r, n, l, z) == [func |-> f, rng |-> r, nplc |-> n, list |-> l, zero |-> z]

\* `scanList = '(@' + scanList + ')'`
Bracketed(scanList) == <<"(", "@">> \o scanList \o <<")">>

\* rng as the commands embed it: Dvm34411.config turns 'AUTO' into ':AUTO'
RngWritten(w, r) == IF w = "Dvm34411" /\ r = AUTO THEN ColonAUTO ELSE r

\* the writes of Daq34972.configScan
ScanCmds(a) ==
    LET f == Upper(a.func)
        l == Bracketed(a.scanList)
        conf == IF ~InTuple("Daq34972", f, noRange("Daq34972"))
                THEN Write("CONF:<func> <rng>,<list>", Fmt(f, a.rng, None, l, None), TRUE)
                ELSE IF f = Name("DIG", "upper")
                THEN Write("CONF:DIG:BYTE<list>", Fmt(f, None, None, l, None), TRUE)
                ELSE Write("CONF:<func> DEF,<list>", Fmt(f, None, None, l, None), TRUE)
    IN  <<conf>> \o
        IF InTuple("Daq34972", f, hasNplc("Daq34972"))
        THEN <<Write("<func>:NPLC <nplc>", Fmt(f, None, a.nplc, <<>>, None), TRUE)>>
        ELSE <<>>

\* the functions Dvm34411.config sets auto-zero for
hasZero == {"VOLT:DC", "CURR:DC", "RES", "TEMP"}

\* the writes of Dvm34411.config
DvmCmds(a) ==
    LET f == Upper(a.func)
    IN  <<Write("FUNC:ON \"<func>\"", Fmt(f, None, None, <<>>, None), TRUE)>> \o
        (IF ~InTuple("Dvm34411", f, noRange("Dvm34411"))
         THEN <<Write("<func>:RANGE <rng>",
                      Fmt(f, RngWritten("Dvm34411", a.rng), None, <<>>, None), TRUE)>>
         ELSE <<>>) \o
        (IF InTuple("Dvm34411", f, hasNplc("Dvm34411"))
         THEN <<Write("<func>:NPLC <nplc>", Fmt(f, None, a.nplc, <<>>, None), TRUE)>>
         ELSE <<>>) \o
        (IF InTuple("Dvm34411", f, hasZero)
         THEN <<Write("<func>:ZERO:AUTO <0|1>",
                      Fmt(f, None, None, <<>>, IF a.aZero THEN Number(1, 0) ELSE Number(0, 0)),
                      TRUE)>>
         ELSE <<>>)

\* the writes of Daq3706.configDmm: rng and nplc are None where the
\* function has no range or no NPLC
DmmCmds(a) ==
    LET f == Lower(a.func)
    IN  <<Write("dmm.func=\"<func>\"", Fmt(f, None, None, <<>>, None), TRUE)>> \o
        (IF ~InTuple("Daq3706", f, noRange("Daq3706"))
         THEN <<Write("dmm.range=<rng>", Fmt(f, a.rng, None, <<>>, None), TRUE)>>
         ELSE <<>>) \o
        (IF ~InTuple("Daq3706", f, noNplc)
         THEN <<Write("dmm.nplc=<nplc>", Fmt(f, None, a.nplc, <<>>, None), TRUE)>>
         ELSE <<>>)

ConfigCmds(w, a) ==
    CASE w = "Daq34972" -> ScanCmds(a)
      [] w = "Dvm34411" -> DvmCmds(a)
      [] w = "Daq3706" -> DmmCmds(a)

-----------------------------------------------------------------------------
(* Arguments of the configuration calls *)

\* the values next to a bound b: one tenth of its leading unit below and above
Below(b) == Dec(b.mant * 10 - 1, b.exp - 1)
Above(b) == Dec(b.mant * 10 + 1, b.exp - 1)
Probes(b) == {Below(b), b, Above(b)}

WithRange(w) == {n \in DOMAIN ranges(w) : ranges(w)[n] # <<>>}

RangeBounds(w) == UNION {{ranges(w)[n][1], ranges(w)[n][2]} : n \in WithRange(w)}

\* rng: both spellings of the sentinel, every bound of the wrapper's table
\* and the values next to it
Rngs(w) == {AUTO, auto} \cup {Float(x) : x \in UNION {Probes(b) : b \in RangeBounds(w)}}

\* nplc: the default 1, the bounds and the values next to them
Nplcs(w) ==
    {Float(x) : x \in {Dec(1, 0)} \cup Probes(NplcBounds(w)[1]) \cup Probes(NplcBounds(w)[2])}

\* func: the keys of the wrapper's table and three names that may be no
\* key of it ('dcvolt' is the default of configDmm), in upper and in lower
\* case
Funcs(w) ==
    {Name(n, c) : n \in DOMAIN ranges(w) \cup {"DCVOLT", "CAP", "DCVOLTS"},
                  c \in {"upper", "lower"}}

\* scanList of configScan: legal lists, a list with blanks, a single
\* channel above 399, a range above 399, a reversed range, a text that is
\* no number and the empty text
ScanLists ==
    { <<"1", "0", "1">>,
      <<"1", "0", "1", ",", " ", "1", "0", "2", ":", "1", "0", "5">>,
      <<"4", "4", "0">>,
      <<"4", "0", "0", ":", "4", "0", "1">>,
      <<"1", "0", "5", ":", "1", "0", "2">>,
      <<"X">>,
      <<>> }

\* the channel numbers tried as single items and as switch numbers, and
\* those tried as range endpoints
Channels(w) ==
    IF w = "Daq3706" THEN {1001, 2061}
    ELSE {100, 101, 399, 400, 440, 441}

Endpoints(w) ==
    IF w = "Daq3706" THEN {5, 1001, 1096, 1097, 2061, 5001}
    ELSE {100, 101, 399, 400}

\* items that are no channel and no range, and a channel between blanks
OddItems ==
    { <<>>,
      <<"X">>,
      <<"1", "0", "1", ":">>,
      <<"1", "0", "1", ":", "1", "0", "2", ":", "1", "0", "3">>,
      <<" ", "1", "0", "1", " ">> }

Items(w) ==
    {IntStr(n) : n \in Channels(w)}
      \cup {IntStr(a) \o <<":">> \o IntStr(b) : a \in Endpoints(w), b \in Endpoints(w)}
      \cup OddItems

\* chlist: one to MaxItems items joined by commas
ChannelLists(w) ==
    {Join(l, ",") : l \in UNION {[1..k -> Items(w)] : k \in 1..MaxItems}}

\* the cards a mainframe can hold, as the six replies to 'print(slot[i].idn)'
Pseudo == <<"P", "s", "e", "u", "d", "o">>
Card3724 == <<"3", "7", "2", "4">>
Idn(card) == card \o <<",", "D", "u", "a", "l">>
PseudoIdn(card) == Pseudo \o <<",", " ">> \o card \o <<",", "D", "u", "a", "l">>

Racks ==
    { <<Idn(Card3722), PseudoIdn(Card3720), Idn(Card3721), Idn(Card3723),
        EmptySlot, Idn(Card3724)>>,
      <<EmptySlot, EmptySlot, EmptySlot, EmptySlot, EmptySlot, EmptySlot>> }

\* replies to 'READ?'
ScalarReplies ==
    { <<"+", "1", ".", "2", "5", "\n">>,
      <<"-", "3", "E", "1">>,
      <<"X">>,
      <<>> }

\* in-slot numbers around the ceilings of the card types and around the
\* backplane range
InSlot == {0, 1, 42, 43, 60, 61, 96, 97, 910, 911, 916, 917}

\* switch of the Daq3706 methods: a slot digit (7 names no slot) before
\* an in-slot number, numbers of one digit, a negative number and numbers
\* without padding zeros
SwitchNumbers ==
    {sl * 1000 + k : sl \in 1..7, k \in InSlot} \cup {0, 5, 11, 196, 342, 343, -1001}

-----------------------------------------------------------------------------
(* What the device may answer *)

\* replies to ':DATA:POIN?;': a count with or without the line terminator,
\* and a reply that is no number
CounterReplies ==
    {<<DigitChar(n), "\n">> : n \in 0..(MaxCount + 1)} \cup {<<DigitChar(MaxCount)>>, <<"X">>}

\* replies to 'R? 1;' in the acquisition runs: well-formed blocks with
\* distinct values, and the malformed shapes
Replies ==
    { <<"#", "1", "5", "+", "1", ".", "2", "5">>,
      <<"#", "1", "3", "-", "3", "\n">>,
      <<"#", "1", "3", "2", "E", "1">>,
      <<"#", "1", "2", "7", "7", "9">>,
      <<"#", "1", "2", "1">>,
      <<"#", "1", "2", "X", "X">>,
      <<"#", "X", "1">>,
      <<"#">>,
      <<"X", "1">>,
      <<>> }

-----------------------------------------------------------------------------
(* waitOverlappedDone(count, timeout) *)

\* `except Exception:` of the polling loop: Daq34972 and Dvm34411 re-raise,
\* Src2722 returns False
PollFailure(w, exc) == IF w = "Src2722" THEN ReturnFalse ELSE Raise(exc)

\* `except Exception:` around the drain ask: the same split
DrainFailure(w, exc) == IF w = "Src2722" THEN ReturnFalse ELSE Raise(exc)

\* `if measured == count: break`
CountReached(m, count) == m = count

\* fault variant: the deadline test fires already at elapsed = timeout
TimedOutAtDeadline(e, timeout) == e >= timeout

\* fault variant: the deadline test never fires
NeverTimedOut(e, timeout) == FALSE

\* `if time.time() - startTime > timeout:`
TimedOut(e, timeout) == e > timeout

\* fault variant: the new reading is put in front of the list
PrependSample(l, v) == <<v>> \o l

\* `samples.append(rdg)`
AppendSample(l, v) == Append(l, v)

CallWaitOverlappedDoneWith(counts) ==
    /\ pc \in {"idle", "done"}
    /\ \E c \in counts, t \in 0..MaxTimeout :
         args' = [count |-> c, timeout |-> t]
    /\ op' = "waitOverlappedDone"
    /\ pc' = "poll"
    /\ io' = <<>>
    /\ elapsed' = 0
    /\ measured' = <<>>
    /\ replies' = <<>>
    /\ samples' = <<>>
    /\ result' = Running
    /\ UNCHANGED <<self, handle, opened, function, device, slots, errorCount, logged, outOfLimits>>

CallWaitOverlappedDone == CallWaitOverlappedDoneWith(0..MaxCount)

\* one turn of `while True:`: the counter query, its conversion, the
\* comparison with count and the timeout test.  later holds the values
\* time.time() - startTime can have at the test, polls the number of
\* counter queries a call is followed through.
PollIterationWith(later, polls) ==
    /\ op = "waitOverlappedDone"
    /\ pc = "poll"
    /\ CountCmd(io, ":DATA:POIN?;") < polls
    /\ \/ /\ io' = Append(io, Ask(":DATA:POIN?;", FALSE))
          /\ result' = PollFailure(self, "TransportError")
          /\ pc' = "done"
          /\ UNCHANGED <<measured, elapsed>>
       \/ \E r \in CounterReplies :
            IF ~IntOk(Strip(r))
            THEN /\ io' = Append(io, Ask(":DATA:POIN?;", TRUE))
                 /\ result' = PollFailure(self, "ValueError")
                 /\ pc' = "done"
                 /\ UNCHANGED <<measured, elapsed>>
            ELSE /\ io' = Append(io, AskCount(":DATA:POIN?;", IntVal(Strip(r))))
                 /\ measured' = <<IntVal(Strip(r))>>
                 /\ IF CountReached(IntVal(Strip(r)), args.count)
                    THEN /\ pc' = "drain"
                         /\ UNCHANGED <<elapsed, result>>
                    ELSE \E now \in later :
                           /\ elapsed' = now
                           /\ IF TimedOut(now, args.timeout)
                              THEN result' = ReturnFalse /\ pc' = "done"
                              ELSE result' = result /\ pc' = "poll"
    /\ UNCHANGED <<self, handle, opened, function, device, slots, errorCount, logged, outOfLimits,
                 op, args, replies, samples>>

\* the clock may stand still between two polls
PollIteration == PollIterationWith(elapsed..MaxElapsed, MaxPolls)

\* the clock advances between two polls; MaxElapsed stands for every time
\* above the largest timeout, and a call is followed through one poll more
\* than a clock that advances lets it make
PollClockAdvances ==
    PollIterationWith((IF elapsed < MaxElapsed THEN elapsed + 1 ELSE MaxElapsed)..MaxElapsed,
                      MaxElapsed + 1)

\* one turn of `for i in range(0, count):`: the read request and the
\* decoding of its reply, the reply drawn from `from`
DrainIterationFrom(from) ==
    /\ op = "waitOverlappedDone"
    /\ pc = "drain"
    /\ Len(samples) < args.count
    /\ \/ /\ io' = Append(io, Ask("R? 1;", FALSE))
          /\ result' = DrainFailure(self, "TransportError")
          /\ pc' = "done"
          /\ UNCHANGED <<replies, samples>>
       \/ /\ io' = Append(io, Ask("R? 1;", TRUE))
          /\ \E r \in from :
               /\ replies' = Append(replies, r)
               /\ IF DecodeBlock(self, r).kind = "decoded"
                  THEN /\ samples' = AppendSample(samples, DecodeBlock(self, r).value)
                       /\ UNCHANGED <<pc, result>>
                  ELSE /\ result' = DecodeBlock(self, r)
                       /\ pc' = "done"
                       /\ UNCHANGED samples
    /\ UNCHANGED <<self, handle, opened, function, device, slots, errorCount, logged, outOfLimits,
                 op, args, elapsed, measured>>

DrainIteration == DrainIterationFrom(Replies)

\* `return samples`
ReturnSamples ==
    /\ op = "waitOverlappedDone"
    /\ pc = "drain"
    /\ Len(samples) >= args.count
    /\ result' = ReturnList(samples)
    /\ pc' = "done"
    /\ UNCHANGED <<self, handle, opened, function, device, slots, errorCount, logged, outOfLimits,
                 op, args, io, elapsed, measured, replies, samples>>

-----------------------------------------------------------------------------
(* startOverlapped(period, total) *)

RECURSIVE Gcd(_, _)
Gcd(a, b) == IF b = 0 THEN a ELSE Gcd(b, a % b)

Abs(n) == IF n < 0 THEN -n ELSE n

\* an int as a number
Num(n) == [num |-> n, den |-> 1]

\* a / b of Python 3 (true division), b # 0, as a fraction in lowest terms
PyDiv(a, b) ==
    LET g == Gcd(Abs(a), Abs(b))
        sgn == IF b < 0 THEN -1 ELSE 1
    IN  [num |-> sgn * (a \div g), den |-> sgn * (b \div g)]

\* `str(total/period)`: the number written after ':SAMP:COUN '
SampleCount(period, total) == PyDiv(total, period)

\* the writes of startOverlapped, in program order
ArmLen(w) == IF w = "Src2722" THEN 1 ELSE 6

\* building the k-th command raises ZeroDivisionError
ArmCmdRaises(w, k, a) == w # "Src2722" /\ k = 2 /\ a.period = 0

\* fault variant: the trigger is written before the device is armed
ArmCmdTriggerFirst(w, k, a) ==
    IF w = "Src2722" THEN Write("MEAS:ARR:VOLT", Num(a.period), TRUE)
    ELSE CASE k = 1 -> Write(":TRIG:SOUR BUS;", NoArg, TRUE)
           [] k = 2 -> Write(":SAMP:COUN", SampleCount(a.period, a.total), TRUE)
           [] k = 3 -> Write(":SAMP:SOUR TIM;", NoArg, TRUE)
           [] k = 4 -> Write(":SAMP:TIM", Num(a.period), TRUE)
           [] k = 5 -> Write("*TRG;", NoArg, TRUE)
           [] k = 6 -> Write(":INIT:IMM;", NoArg, TRUE)

ArmCmd(w, k, a) ==
    IF w = "Src2722" THEN Write("MEAS:ARR:VOLT", Num(a.period), TRUE)
    ELSE CASE k = 1 -> Write(":TRIG:SOUR BUS;", NoArg, TRUE)
           [] k = 2 -> Write(":SAMP:COUN", SampleCount(a.period, a.total), TRUE)
           [] k = 3 -> Write(":SAMP:SOUR TIM;", NoArg, TRUE)
           [] k = 4 -> Write(":SAMP:TIM", Num(a.period), TRUE)
           [] k = 5 -> Write(":INIT:IMM;", NoArg, TRUE)
           [] k = 6 -> Write("*TRG;", NoArg, TRUE)

\* `except Exception:` of startOverlapped: Daq34972 and Dvm34411 re-raise,
\* Src2722 returns False
ArmFailure(w, exc) == IF w = "Src2722" THEN ReturnFalse ELSE Raise(exc)

CallStartOverlapped ==
    /\ pc \in {"idle", "done"}
    /\ \E p \in (-1)..MaxPeriod, t \in (-1)..MaxTotal :
         args' = [period |-> p, total |-> t]
    /\ op' = "startOverlapped"
    /\ pc' = "arm"
    /\ io' = <<>>
    /\ elapsed' = 0
    /\ measured' = <<>>
    /\ replies' = <<>>
    /\ samples' = <<>>
    /\ result' = Running
    /\ UNCHANGED <<self, handle, opened, function, device, slots, errorCount, logged, outOfLimits>>

\* the next statement of the try block: build the command and write it
ArmWrite ==
    /\ op = "startOverlapped"
    /\ pc = "arm"
    /\ LET k == Len(io) + 1
       IN  IF ArmCmdRaises(self, k, args)
           THEN /\ result' = ArmFailure(self, "ZeroDivisionError")
                /\ pc' = "done"
                /\ UNCHANGED io
           ELSE \E ok \in BOOLEAN :
                  /\ io' = Append(io, [ArmCmd(self, k, args) EXCEPT !.ok = ok])
                  /\ IF ~ok
                     THEN result' = ArmFailure(self, "TransportError") /\ pc' = "done"
                     ELSE IF k = ArmLen(self)
                     THEN result' = ReturnTrue /\ pc' = "done"
                     ELSE result' = result /\ pc' = "arm"
    /\ UNCHANGED <<self, handle, opened, function, device, slots, errorCount, logged, outOfLimits,
                 op, args, elapsed, measured, replies, samples>>

-----------------------------------------------------------------------------
(* Dvm34411.read() *)

ReadCmd(k) ==
    CASE k = 1 -> Write("SAMP:COUN 1", NoArg, TRUE)
      [] k = 2 -> Write("TRIG:SOUR BUS", NoArg, TRUE)
      [] k = 3 -> Write("TRIG:COUN 1", NoArg, TRUE)
      [] k = 4 -> Write("INIT:IMM", NoArg, TRUE)
      [] k = 5 -> Write("*TRG", NoArg, TRUE)

\* args.timeout is self.timeout at the time of the call
CallRead ==
    /\ pc \in {"idle", "done"}
    /\ self = "Dvm34411"
    /\ \E t \in 0..MaxTimeout : args' = [count |-> 1, timeout |-> t]
    /\ op' = "read"
    /\ pc' = "setup"
    /\ io' = <<>>
    /\ elapsed' = 0
    /\ measured' = <<>>
    /\ replies' = <<>>
    /\ samples' = <<>>
    /\ result' = Running
    /\ UNCHANGED <<self, handle, opened, function, device, slots, errorCount, logged, outOfLimits>>

ReadWrite ==
    /\ op = "read"
    /\ pc = "setup"
    /\ \E ok \in BOOLEAN :
         /\ io' = Append(io, [ReadCmd(Len(io) + 1) EXCEPT !.ok = ok])
         /\ IF ~ok
            THEN result' = Raise("TransportError") /\ pc' = "done"
            ELSE IF Len(io) + 1 = 5
            THEN result' = result /\ pc' = "poll"
            ELSE result' = result /\ pc' = "setup"
    /\ UNCHANGED <<self, handle, opened, function, device, slots, errorCount, logged, outOfLimits,
                 op, args, elapsed, measured, replies, samples>>

\* one turn of the `while True:` of read
ReadPoll ==
    /\ op = "read"
    /\ pc = "poll"
    /\ CountCmd(io, "DATA:POIN?") < MaxPolls
    /\ \/ /\ io' = Append(io, Ask("DATA:POIN?", FALSE))
          /\ result' = Raise("TransportError")
          /\ pc' = "done"
          /\ UNCHANGED <<measured, elapsed>>
       \/ \E r \in CounterReplies :
            IF ~IntOk(Strip(r))
            THEN /\ io' = Append(io, Ask("DATA:POIN?", TRUE))
                 /\ result' = Raise("ValueError")
                 /\ pc' = "done"
                 /\ UNCHANGED <<measured, elapsed>>
            ELSE /\ io' = Append(io, AskCount("DATA:POIN?", IntVal(Strip(r))))
                 /\ measured' = <<IntVal(Strip(r))>>
                 /\ IF CountReached(IntVal(Strip(r)), 1)
                    THEN /\ pc' = "fetch"
                         /\ UNCHANGED <<elapsed, result>>
                    ELSE \E now \in elapsed..MaxElapsed :
                           /\ elapsed' = now
                           /\ IF TimedOut(now, args.timeout)
                              THEN result' = ReturnFalse /\ pc' = "done"
                              ELSE result' = result /\ pc' = "poll"
    /\ UNCHANGED <<self, handle, opened, function, device, slots, errorCount, logged, outOfLimits,
                 op, args, replies, samples>>

\* `reading = self.handle.ask('R? 1;')` and the decoding after the try
ReadReplyFrom(from) ==
    /\ op = "read"
    /\ pc = "fetch"
    /\ \/ /\ io' = Append(io, Ask("R? 1;", FALSE))
          /\ result' = Raise("TransportError")
          /\ UNCHANGED replies
       \/ /\ io' = Append(io, Ask("R? 1;", TRUE))
          /\ \E r \in from :
               /\ replies' = Append(replies, r)
               /\ result' = IF DecodeRead(r).kind = "decoded"
                            THEN ReturnReading(DecodeRead(r).value)
                            ELSE DecodeRead(r)
    /\ pc' = "done"
    /\ UNCHANGED <<self, handle, opened, function, device, slots, errorCount, logged, outOfLimits,
                 op, args, elapsed, measured, samples>>

ReadReply == ReadReplyFrom(Replies)

-----------------------------------------------------------------------------
(* The configuration calls, statement by statement *)

Configurable == {"Daq34972", "Dvm34411", "Daq3706"}

\* the phase after `phase` in the method of wrapper w ("done" after the last)
NextPhase(w, phase) ==
    LET i == CHOOSE j \in 1..Len(Phases(w)) : Phases(w)[j] = phase
    IN  IF i = Len(Phases(w)) THEN "done" ELSE Phases(w)[i + 1]

CallConfig ==
    /\ pc = "idle"
    /\ self \in Configurable
    /\ \E f \in Funcs(self), r \in Rngs(self), n \in Nplcs(self), z \in BOOLEAN :
         \E l \in IF self = "Daq34972" THEN ScanLists ELSE {<<>>} :
           /\ self # "Dvm34411" => z
           /\ args' = [func |-> f, rng |-> r, nplc |-> n, scanList |-> l, aZero |-> z]
    /\ op' = ConfigOp(self)
    /\ pc' = Phases(self)[1]
    /\ io' = <<>>
    /\ elapsed' = 0
    /\ measured' = <<>>
    /\ replies' = <<>>
    /\ samples' = <<>>
    /\ result' = Running
    /\ UNCHANGED <<self, handle, opened, function, device, slots, errorCount, logged, outOfLimits>>

\* one of the checks before the try block
ConfigCheck ==
    /\ op = ConfigOp(self)
    /\ pc \in {"func", "range", "nplc", "list"}
    /\ IF CheckOutcome(self, slots, args, pc).kind = "running"
       THEN /\ pc' = NextPhase(self, pc)
            /\ result' = IF NextPhase(self, pc) = "done" THEN ReturnTrue ELSE result
       ELSE /\ pc' = "done"
            /\ result' = CheckOutcome(self, slots, args, pc)
    /\ UNCHANGED <<self, handle, opened, function, device, slots, errorCount, logged, outOfLimits,
                 op, args, io, elapsed, measured, replies, samples>>

\* the next write of the try block; `return True` follows the last one
ConfigWrite ==
    /\ op = ConfigOp(self)
    /\ pc = "write"
    /\ LET k == Len(io) + 1
       IN  \E ok \in BOOLEAN :
             /\ io' = Append(io, [ConfigCmds(self, args)[k] EXCEPT !.ok = ok])
             /\ IF ~ok
                THEN result' = Raise("TransportError") /\ pc' = "done"
                ELSE IF k < Len(ConfigCmds(self, args))
                THEN result' = result /\ pc' = "write"
                ELSE IF NextPhase(self, "write") = "done"
                THEN result' = ReturnTrue /\ pc' = "done"
                ELSE result' = result /\ pc' = NextPhase(self, "write")
    /\ UNCHANGED <<self, handle, opened, function, device, slots, errorCount, logged, outOfLimits,
                 op, args, elapsed, measured, replies, samples>>

-----------------------------------------------------------------------------
(* Daq3706.scanSlots() *)

\* `items = idn.split(',')` ... `slotType = slotType.strip()`; Running
\* stands for an index past the end of items
SlotType(idn) ==
    LET items == Split(idn, ",")
    IN  IF items[1] = Pseudo
        THEN IF Len(items) < 2 THEN Running ELSE Decoded(Str(Strip(items[2])))
        ELSE Decoded(Str(Strip(items[1])))

\* the racks that agree with the slot types stored so far
RacksLike(sl) ==
    {r \in Racks : \A j \in 1..Len(sl) :
        SlotType(r[j]).kind = "decoded" /\ SlotType(r[j]).value.text = sl[j]}

\* `if slotType != 'Empty Slot': anySlot = True`
anySlot(sl) == \E j \in 1..Len(sl) : sl[j] # EmptySlot

CallScanSlots ==
    /\ pc = "idle"
    /\ self = "Daq3706"
    /\ args' = [count |-> 0, timeout |-> 0]
    /\ op' = "scanSlots"
    /\ pc' = "scan"
    /\ slots' = <<>>
    /\ io' = <<>>
    /\ elapsed' = 0
    /\ measured' = <<>>
    /\ replies' = <<>>
    /\ samples' = <<>>
    /\ result' = Running
    /\ UNCHANGED <<self, handle, opened, function, device, errorCount, logged, outOfLimits>>

\* one turn of `for i in range(1, 7):`
ScanSlot ==
    /\ op = "scanSlots"
    /\ pc = "scan"
    /\ \/ /\ io' = Append(io, Ask("print(slot[%d].idn)", FALSE))
          /\ result' = Raise("TransportError")
          /\ pc' = "done"
          /\ UNCHANGED <<slots, replies>>
       \/ \E r \in RacksLike(slots) :
            LET idn == r[Len(slots) + 1]
            IN  /\ io' = Append(io, Ask("print(slot[%d].idn)", TRUE))
                /\ replies' = Append(replies, idn)
                /\ IF SlotType(idn).kind # "decoded"
                   THEN /\ result' = Raise("IndexError")
                        /\ pc' = "done"
                        /\ UNCHANGED slots
                   ELSE /\ slots' = Append(slots, SlotType(idn).value.text)
                        /\ IF Len(slots) + 1 < 6
                           THEN result' = result /\ pc' = "scan"
                           ELSE /\ pc' = "done"
                                /\ result' = IF anySlot(slots') THEN ReturnTrue
                                             ELSE ReturnFalse
    /\ UNCHANGED <<self, handle, opened, function, device, errorCount, logged, outOfLimits, op, args, elapsed, measured, samples>>

-----------------------------------------------------------------------------
(* checkList(chlist), Daq34972.controlSwitch, Daq34972.readSwitch *)

CallCheckList ==
    /\ pc = "idle"
    /\ self \in {"Daq34972", "Daq3706"}
    /\ \E l \in ChannelLists(self) :
         /\ args' = [chlist |-> l]
         /\ result' = CheckList(self, slots, l)
    /\ op' = "checkList"
    /\ pc' = "done"
    /\ io' = <<>>
    /\ elapsed' = 0
    /\ measured' = <<>>
    /\ replies' = <<>>
    /\ samples' = <<>>
    /\ UNCHANGED <<self, handle, opened, function, device, slots, errorCount, logged, outOfLimits>>

\* the command 'ROUT:CLOS (@<switch>)' or 'ROUT:OPEN (@<switch>)'
Rout(closed, switch) ==
    Write(IF closed THEN "ROUT:CLOS <list>" ELSE "ROUT:OPEN <list>",
          Fmt(None, None, None, Bracketed(IntStr(switch)), None), TRUE)

\* Daq34972.controlSwitch(switch, state)
ControlSwitch ==
    /\ pc = "idle"
    /\ self = "Daq34972"
    /\ \E n \in Channels(self), st \in BOOLEAN :
         /\ args' = [switch |-> n, state |-> st]
         /\ IF ~SwitchInBank(n)
            THEN io' = <<>> /\ result' = ReturnFalse
            ELSE \E ok \in BOOLEAN :
                   /\ io' = <<[Rout(st, n) EXCEPT !.ok = ok]>>
                   /\ result' = IF ok THEN ReturnTrue ELSE Raise("TransportError")
    /\ op' = "controlSwitch"
    /\ pc' = "done"
    /\ elapsed' = 0
    /\ measured' = <<>>
    /\ replies' = <<>>
    /\ samples' = <<>>
    /\ UNCHANGED <<self, handle, opened, function, device, slots, errorCount, logged, outOfLimits>>

\* Daq34972.readSwitch(switch): the switch test and the close command
ReadSwitchEntry(n) ==
    /\ IF ~SwitchInBank(n)
       THEN io' = <<>> /\ result' = ReturnFalse /\ pc' = "done"
       ELSE \E ok \in BOOLEAN :
              /\ io' = <<[Rout(TRUE, n) EXCEPT !.ok = ok]>>
              /\ result' = IF ok THEN Running ELSE Raise("TransportError")
              /\ pc' = IF ok THEN "ask" ELSE "done"
    /\ op' = "readSwitch"
    /\ elapsed' = 0
    /\ measured' = <<>>
    /\ replies' = <<>>
    /\ samples' = <<>>

CallReadSwitch ==
    /\ pc = "idle"
    /\ self = "Daq34972"
    /\ \E n \in Channels(self) :
         /\ args' = [switch |-> n]
         /\ ReadSwitchEntry(n)
    /\ UNCHANGED <<self, handle, opened, function, device, slots, errorCount, logged, outOfLimits>>

\* `reading = self.handle.ask('READ?')`
ReadSwitchAsk ==
    /\ op = "readSwitch"
    /\ self = "Daq34972"
    /\ pc = "ask"
    /\ \/ /\ io' = Append(io, Ask("READ?", FALSE))
          /\ result' = Raise("TransportError")
          /\ pc' = "done"
          /\ UNCHANGED replies
       \/ \E r \in ScalarReplies :
            /\ io' = Append(io, Ask("READ?", TRUE))
            /\ replies' = <<r>>
            /\ pc' = "open"
            /\ UNCHANGED result
    /\ UNCHANGED <<self, handle, opened, function, device, slots, errorCount, logged, outOfLimits,
                 op, args, elapsed, measured, samples>>

\* the open command, then `volt = float(reading)`
ReadSwitchOpen ==
    /\ op = "readSwitch"
    /\ self = "Daq34972"
    /\ pc = "open"
    /\ \E ok \in BOOLEAN :
         /\ io' = Append(io, [Rout(FALSE, args.switch) EXCEPT !.ok = ok])
         /\ result' = IF ~ok THEN Raise("TransportError")
                      ELSE IF FloatOk(replies[1])
                      THEN ReturnReading(Float(FloatVal(replies[1])))
                      ELSE Raise("ValueError")
    /\ pc' = "done"
    /\ UNCHANGED <<self, handle, opened, function, device, slots, errorCount, logged, outOfLimits,
                 op, args, elapsed, measured, replies, samples>>

-----------------------------------------------------------------------------
(* Daq3706.checkSwitchNumber, controlSwitch, read and readSwitch *)

CallCheckSwitchNumber ==
    /\ pc = "idle"
    /\ self = "Daq3706"
    /\ \E n \in SwitchNumbers :
         /\ args' = [switch |-> n]
         /\ result' = CheckSwitchNumber(slots, n)
    /\ op' = "checkSwitchNumber"
    /\ pc' = "done"
    /\ io' = <<>>
    /\ elapsed' = 0
    /\ measured' = <<>>
    /\ replies' = <<>>
    /\ samples' = <<>>
    /\ UNCHANGED <<self, handle, opened, function, device, slots, errorCount, logged, outOfLimits>>

\* the command 'channel.close("<switch>")' or 'channel.open("<switch>")'
Channel(closed, switch) ==
    Write(IF closed THEN "channel.close(\"<switch>\")" ELSE "channel.open(\"<switch>\")",
          Fmt(None, None, None, IntStr(switch), None), TRUE)

\* Daq3706.controlSwitch(switch, state)
ControlSwitch3706 ==
    /\ pc = "idle"
    /\ self = "Daq3706"
    /\ \E n \in SwitchNumbers, st \in BOOLEAN :
         /\ args' = [switch |-> n, state |-> st]
         /\ IF ~ReturnedTrue(CheckSwitchNumber(slots, n))
            THEN io' = <<>> /\ result' = CheckSwitchNumber(slots, n)
            ELSE \E ok \in BOOLEAN :
                   /\ io' = <<[Channel(st, n) EXCEPT !.ok = ok]>>
                   /\ result' = IF ok THEN ReturnTrue ELSE Raise("TransportError")
    /\ op' = "controlSwitch"
    /\ pc' = "done"
    /\ elapsed' = 0
    /\ measured' = <<>>
    /\ replies' = <<>>
    /\ samples' = <<>>
    /\ UNCHANGED <<self, handle, opened, function, device, slots, errorCount, logged, outOfLimits>>

\* the statements of Daq3706.read() that touch the handle, in order
ReadSteps == <<"buffer", "count", "measure", "delete">>

ReadStep(k) ==
    CASE k = 1 -> Write("buffer = dmm.makebuffer(1)", NoArg, TRUE)
      [] k = 2 -> Write("dmm.measurecount = 1", NoArg, TRUE)
      [] k = 3 -> Ask("print(dmm.measure(buffer))", TRUE)
      [] k = 4 -> Write("buffer=nil", NoArg, TRUE)

\* Daq3706.read()
CallRead3706 ==
    /\ pc = "idle"
    /\ self = "Daq3706"
    /\ args' = [count |-> 1, timeout |-> 0]
    /\ op' = "read"
    /\ pc' = ReadSteps[1]
    /\ io' = <<>>
    /\ elapsed' = 0
    /\ measured' = <<>>
    /\ replies' = <<>>
    /\ samples' = <<>>
    /\ result' = Running
    /\ UNCHANGED <<self, handle, opened, function, device, slots, errorCount, logged, outOfLimits>>

\* Daq3706.readSwitch(switch) with delay = 0: the switch test and the close
\* command
CallReadSwitch3706 ==
    /\ pc = "idle"
    /\ self = "Daq3706"
    /\ \E n \in SwitchNumbers :
         /\ args' = [switch |-> n]
         /\ IF ~ReturnedTrue(CheckSwitchNumber(slots, n))
            THEN io' = <<>> /\ result' = CheckSwitchNumber(slots, n) /\ pc' = "done"
            ELSE \E ok \in BOOLEAN :
                   /\ io' = <<[Channel(TRUE, n) EXCEPT !.ok = ok]>>
                   /\ result' = IF ok THEN Running ELSE Raise("TransportError")
                   /\ pc' = IF ok THEN ReadSteps[1] ELSE "done"
    /\ op' = "readSwitch"
    /\ elapsed' = 0
    /\ measured' = <<>>
    /\ replies' = <<>>
    /\ samples' = <<>>
    /\ UNCHANGED <<self, handle, opened, function, device, slots, errorCount, logged, outOfLimits>>

\* the first try block of read(): two writes and the ask; `except: raise`,
\* which the except of readSwitch raises again
ReadMeasure ==
    /\ op \in {"read", "readSwitch"}
    /\ self = "Daq3706"
    /\ pc \in {"buffer", "count", "measure"}
    /\ LET k == CHOOSE j \in 1..3 : ReadSteps[j] = pc
       IN  \/ /\ io' = Append(io, [ReadStep(k) EXCEPT !.ok = FALSE])
              /\ result' = Raise("TransportError")
              /\ pc' = "done"
              /\ UNCHANGED replies
           \/ /\ io' = Append(io, ReadStep(k))
              /\ pc' = ReadSteps[k + 1]
              /\ IF k = 3 THEN \E r \in ScalarReplies : replies' = <<r>>
                 ELSE UNCHANGED replies
              /\ UNCHANGED result
    /\ UNCHANGED <<self, handle, opened, function, device, slots, errorCount, logged, outOfLimits,
                 op, args, elapsed, measured, samples>>

\* `reading` at the end of read(): the bare except around the write of
\* 'buffer=nil' and float(reslt) returns False
ReadValue(ok, reslt) ==
    IF ~ok THEN PyFalse
    ELSE IF FloatOk(reslt) THEN Float(FloatVal(reslt))
    ELSE PyFalse

\* the second try block of read() and its return; in readSwitch the value
\* becomes the local `reading`
ReadDelete ==
    /\ op \in {"read", "readSwitch"}
    /\ self = "Daq3706"
    /\ pc = "delete"
    /\ \E ok \in BOOLEAN :
         /\ io' = Append(io, [ReadStep(4) EXCEPT !.ok = ok])
         /\ IF op = "read"
            THEN /\ result' = ReturnValue(ReadValue(ok, replies[1]))
                 /\ pc' = "done"
                 /\ UNCHANGED samples
            ELSE /\ samples' = <<ReadValue(ok, replies[1])>>
                 /\ pc' = "open"
                 /\ UNCHANGED result
    /\ UNCHANGED <<self, handle, opened, function, device, slots, errorCount, logged, outOfLimits,
                 op, args, elapsed, measured, replies>>

\* the open command of Daq3706.readSwitch and `return reading`
ReadSwitchOpen3706 ==
    /\ op = "readSwitch"
    /\ self = "Daq3706"
    /\ pc = "open"
    /\ \E ok \in BOOLEAN :
         /\ io' = Append(io, [Channel(FALSE, args.switch) EXCEPT !.ok = ok])
         /\ result' = IF ok THEN ReturnValue(samples[1]) ELSE Raise("TransportError")
    /\ pc' = "done"
    /\ UNCHANGED <<self, handle, opened, function, device, slots, errorCount, logged, outOfLimits,
                 op, args, elapsed, measured, replies, samples>>

-----------------------------------------------------------------------------
(* error.py: Errors, chkLimits, measureAndCheckSwich, switchAndCheck *)

\* fault variant: a failure is counted twice
bumpErrorTwice(count) == count + 2

\* `self.errorCount += 1`
bumpError(count) == count + 1

\* `not Min < value < Max`
OutOfLimits(value, Min, Max) == ~(Lt(Min, value) /\ Lt(value, Max))

\* building `line` raises: '%X' takes no float
FormatRaises(a) == a.Hex /\ \E x \in {a.value, a.Min, a.Max} : x.t = "float"

\* a line passed to Log.logError or Log.logText; ok is FALSE when the write
\* to the log file raised
Line(kind, ok) == [line |-> kind, ok |-> ok]

Checked == {"chkLimits", "measureAndCheckSwich", "switchAndCheck"}

\* value and (Min, Max) of the calls
Values ==
    {PyInt(1), PyInt(2), PyInt(3), Number(3, 0), Number(33, -1), Number(39, -1), PyFalse}

Limits ==
    {<<Number(3, 0), Number(36, -1)>>, <<PyInt(1), PyInt(3)>>, <<PyInt(-1), PyInt(2)>>}

\* the locals of chkLimits; before is Err.getErrorCount() at the call
LimitArgs(v, lo, hi, hex, count) ==
    [value |-> v, Min |-> lo, Max |-> hi, Hex |-> hex, before |-> count]

\* the locals of measureAndCheckSwich and switchAndCheck while the DMM
\* method runs
Caller(f, lim) == [op |-> f, Min |-> lim[1], Max |-> lim[2], before |-> errorCount]

Nested == "caller" \in DOMAIN args

CallChkLimits ==
    /\ pc = "idle"
    /\ errorCount < MaxErrors /\ outOfLimits < MaxErrors
    /\ \E v \in Values, lim \in Limits, hex \in BOOLEAN :
         args' = LimitArgs(v, lim[1], lim[2], hex, errorCount)
    /\ op' = "chkLimits"
    /\ pc' = "test"
    /\ io' = <<>>
    /\ elapsed' = 0
    /\ measured' = <<>>
    /\ replies' = <<>>
    /\ samples' = <<>>
    /\ result' = Running
    /\ logged' = <<>>
    /\ UNCHANGED <<self, handle, opened, function, device, slots, errorCount, outOfLimits>>

\* switchAndCheck(sw, name, loLim, hiLim): `v = DMM.readSwitch(sw, delay)`
\* with delay = 0 enters Daq34972.readSwitch
CallSwitchAndCheck ==
    /\ pc = "idle"
    /\ self = "Daq34972"
    /\ errorCount < MaxErrors /\ outOfLimits < MaxErrors
    /\ \E n \in Channels(self), lim \in Limits :
         /\ args' = [switch |-> n, caller |-> Caller("switchAndCheck", lim)]
         /\ ReadSwitchEntry(n)
    /\ logged' = <<>>
    /\ UNCHANGED <<self, handle, opened, function, device, slots, errorCount, outOfLimits>>

\* `v = DMM.readSwitch(sw, delay)` returns or raises
SwitchRead ==
    /\ op = "readSwitch"
    /\ pc = "done"
    /\ Nested
    /\ op' = args.caller.op
    /\ IF Raised(result)
       THEN /\ args' = LimitArgs(None, args.caller.Min, args.caller.Max, FALSE,
                                 args.caller.before)
            /\ UNCHANGED <<pc, result>>
       ELSE /\ args' = LimitArgs(IF ReturnedFalse(result) THEN PyFalse ELSE result.value,
                                 args.caller.Min, args.caller.Max, FALSE,
                                 args.caller.before)
            /\ pc' = "test"
            /\ result' = Running
    /\ UNCHANGED <<self, handle, opened, function, device, slots, errorCount, logged, outOfLimits,
                 io, elapsed, measured, replies, samples>>

\* measureAndCheckSwich(switch, name, loLim, hiLim): `DMM.configScan(switch,
\* mod)` with mod = 'VOLT:DC' enters Daq34972.configScan with its defaults
\* rng = 'AUTO' and nplc = 1
CallMeasureAndCheckSwich ==
    /\ pc = "idle"
    /\ self = "Daq34972"
    /\ errorCount < MaxErrors /\ outOfLimits < MaxErrors
    /\ \E l \in ScanLists, lim \in Limits :
         args' = [func |-> Name("VOLT:DC", "upper"), rng |-> AUTO, nplc |-> Number(1, 0),
                  scanList |-> l, aZero |-> TRUE,
                  caller |-> Caller("measureAndCheckSwich", lim)]
    /\ op' = ConfigOp(self)
    /\ pc' = Phases(self)[1]
    /\ io' = <<>>
    /\ elapsed' = 0
    /\ measured' = <<>>
    /\ replies' = <<>>
    /\ samples' = <<>>
    /\ result' = Running
    /\ logged' = <<>>
    /\ UNCHANGED <<self, handle, opened, function, device, slots, errorCount, outOfLimits>>

\* configScan has returned (its value is dropped) or raised; then
\* `v = DMM.read()`, Daq34972.read: the ask and float(reading), both
\* re-raising
MeasureRead ==
    /\ op = "configScan"
    /\ pc = "done"
    /\ Nested
    /\ op' = args.caller.op
    /\ LET a(v) == LimitArgs(v, args.caller.Min, args.caller.Max, FALSE, args.caller.before)
       IN  IF Raised(result)
           THEN args' = a(None) /\ UNCHANGED <<pc, result, io, replies>>
           ELSE \/ /\ io' = Append(io, Ask("READ?", FALSE))
                   /\ result' = Raise("TransportError")
                   /\ args' = a(None)
                   /\ UNCHANGED <<pc, replies>>
                \/ \E r \in ScalarReplies :
                     /\ io' = Append(io, Ask("READ?", TRUE))
                     /\ replies' = <<r>>
                     /\ IF FloatOk(r)
                        THEN /\ args' = a(Float(FloatVal(r)))
                             /\ pc' = "test"
                             /\ result' = Running
                        ELSE /\ args' = a(None)
                             /\ result' = Raise("ValueError")
                             /\ UNCHANGED pc
    /\ UNCHANGED <<self, handle, opened, function, device, slots, errorCount, logged, outOfLimits,
                 elapsed, measured, samples>>

\* what the function in progress returns once chkLimits has returned b:
\* chkLimits returns b, the two others drop it and `return v`
Returned(b) ==
    IF op = "chkLimits" THEN (IF b THEN ReturnTrue ELSE ReturnFalse)
    ELSE ReturnValue(args.value)

\* chkLimits: the test of the limits and the building of `line`
ChkLimitsTest ==
    /\ op \in Checked
    /\ pc = "test"
    /\ outOfLimits' = IF OutOfLimits(args.value, args.Min, args.Max)
                      THEN outOfLimits + 1 ELSE outOfLimits
    /\ IF FormatRaises(args)
       THEN result' = Raise("TypeError") /\ pc' = "done"
       ELSE /\ pc' = IF OutOfLimits(args.value, args.Min, args.Max)
                     THEN "logError" ELSE "logText"
            /\ UNCHANGED result
    /\ UNCHANGED <<self, handle, opened, function, device, slots, errorCount, logged,
                 op, args, io, elapsed, measured, replies, samples>>

\* `Log.logError(line)`: TestLog.logError prints the line and writes it to
\* the log file, raising again what the write raises
LogError ==
    /\ op \in Checked
    /\ pc = "logError"
    /\ \E ok \in BOOLEAN :
         /\ logged' = Append(logged, Line("error", ok))
         /\ IF ok THEN pc' = "bump" /\ UNCHANGED result
            ELSE pc' = "done" /\ result' = Raise("OSError")
    /\ UNCHANGED <<self, handle, opened, function, device, slots, errorCount, outOfLimits,
                 op, args, io, elapsed, measured, replies, samples>>

\* `Err.bumpError()` and `return False`
BumpError ==
    /\ op \in Checked
    /\ pc = "bump"
    /\ errorCount' = bumpError(errorCount)
    /\ result' = Returned(FALSE)
    /\ pc' = "done"
    /\ UNCHANGED <<self, handle, opened, function, device, slots, logged, outOfLimits,
                 op, args, io, elapsed, measured, replies, samples>>

\* `Log.logText(...)` and `return True`
LogText ==
    /\ op \in Checked
    /\ pc = "logText"
    /\ \E ok \in BOOLEAN :
         /\ logged' = Append(logged, Line("text", ok))
         /\ result' = IF ok THEN Returned(TRUE) ELSE Raise("OSError")
    /\ pc' = "done"
    /\ UNCHANGED <<self, handle, opened, function, device, slots, errorCount, outOfLimits,
                 op, args, io, elapsed, measured, replies, samples>>

\* Err.getErrorCount()
CallGetErrorCount ==
    /\ pc = "idle"
    /\ args' = [count |-> 0, timeout |-> 0]
    /\ op' = "getErrorCount"
    /\ pc' = "done"
    /\ result' = ReturnReading(PyInt(errorCount))
    /\ UNCHANGED <<self, handle, opened, function, device, slots, errorCount, logged, outOfLimits,
                 io, elapsed, measured, replies, samples>>

-----------------------------------------------------------------------------
(* open() and close() of the wrappers *)

Sources == {"Daq34972", "Daq3706", "Src2722", "Gen33220", "SrcHameg", "Hmp4030"}

\* the wrappers whose __init__ and open maintain self.opened
hasOpened == {"Daq3706", "SrcHameg"}

\* a write with no argument
Plain(c) == Write(c, NoArg, TRUE)

\* the writes of open() after get_instrument
OpenCmds(w) ==
    IF w = "Daq3706"
    THEN <<Plain("*RST"), Plain("beeper.enable = beeper.ON"), Plain("beeper.beep(.1, 4800)")>>
    ELSE <<Plain("*RST")>>

\* the first k commands of cmds as written when the k-th write raises
\* (k <= Len(cmds)), or all of them written (k > Len(cmds))
WrittenUpTo(cmds, k) ==
    [i \in 1..(IF k > Len(cmds) THEN Len(cmds) ELSE k) |->
        [cmds[i] EXCEPT !.ok = (i # k)]]

\* open(): Daq3706 returns at once when opened; get_instrument raises
\* (k = 0) or sets the handle, after which the k-th write raises or the
\* method runs to its end, where Daq3706 and SrcHameg set self.opened
Open ==
    /\ pc = "idle"
    /\ self \in Sources
    /\ op' = "open"
    /\ pc' = "done"
    /\ args' = [again |-> FALSE]
    /\ IF self = "Daq3706" /\ opened
       THEN /\ io' = <<>>
            /\ result' = ReturnTrue
            /\ UNCHANGED <<handle, opened>>
       ELSE \E k \in 0..(Len(OpenCmds(self)) + 1) :
              IF k = 0
              THEN /\ io' = <<>>
                   /\ result' = Raise("VisaIOError")
                   /\ UNCHANGED <<handle, opened>>
              ELSE /\ handle' = "open"
                   /\ io' = WrittenUpTo(OpenCmds(self), k)
                   /\ IF k <= Len(OpenCmds(self))
                      THEN result' = Raise("TransportError") /\ UNCHANGED opened
                      ELSE /\ result' = ReturnTrue
                           /\ opened' = IF self \in hasOpened THEN TRUE ELSE opened
    /\ UNCHANGED <<self, function, device, slots, errorCount, logged, outOfLimits,
                 elapsed, measured, replies, samples>>

\* the test in front of the body of close(): `if self.handle != None:` in
\* Daq34972, Src2722 and Gen33220, `if self.opened:` in Daq3706 and SrcHameg,
\* none in Hmp4030
Closes(w, h, o) ==
    CASE w \in {"Daq34972", "Src2722", "Gen33220"} -> h # "None"
      [] w \in {"Daq3706", "SrcHameg"} -> o
      [] w = "Hmp4030" -> TRUE

\* self.opened after the body of close() has run: Daq3706 clears it
OpenedAfterClose(w, o) == IF w = "Daq3706" THEN FALSE ELSE o

\* close(): the test; then `self.handle.write('*RST')`, which raises
\* AttributeError on a handle that is None, `self.handle.close()` and
\* `self.handle = None`.  again tells that the call before was a close that
\* returned True.
Close ==
    /\ \/ pc = "idle"
       \/ pc = "done" /\ op = "close"
    /\ self \in Sources
    /\ op' = "close"
    /\ pc' = "done"
    /\ args' = [again |-> pc = "done" /\ ReturnedTrue(result)]
    /\ IF ~Closes(self, handle, opened)
       THEN /\ io' = <<>>
            /\ result' = ReturnTrue
            /\ UNCHANGED <<handle, opened>>
       ELSE IF handle = "None"
       THEN /\ io' = <<>>
            /\ result' = Raise("AttributeError")
            /\ UNCHANGED <<handle, opened>>
       ELSE \/ /\ io' = <<[Plain("*RST") EXCEPT !.ok = FALSE]>>
               /\ result' = Raise("TransportError")
               /\ UNCHANGED <<handle, opened>>
            \/ /\ io' = <<Plain("*RST")>>
               /\ result' = Raise("VisaIOError")
               /\ UNCHANGED <<handle, opened>>
            \/ /\ io' = <<Plain("*RST")>>
               /\ result' = ReturnTrue
               /\ handle' = "None"
               /\ opened' = OpenedAfterClose(self, opened)
    /\ UNCHANGED <<self, function, device, slots, errorCount, logged, outOfLimits,
                 elapsed, measured, replies, samples>>

-----------------------------------------------------------------------------
(* Src2722.configVoltSrc, Gen33220, SrcHameg and Hmp4030 *)

\* a <= b, abs(v)
Le(a, b) == ~Lt(b, a)
AbsNum(v) == [v EXCEPT !.mant = IF @ < 0 THEN 0 - @ ELSE @]

\* what a command text embeds: a channel number (0 when it has none), a
\* value, a range name
SrcArg(ch, v, r) == [chnl |-> ch, val |-> v, rng |-> r]
NoRng == ""

\* channel, volt and currLimit of the calls; freq of setFrequency
ChannelNumbers == (-1)..5
Volts == {Number(0, 0), Number(2, 0), Number(-2, 0), Number(25, -1), Number(-5, 0)}
CurrLimits ==
    { Number(-1, 0), Number(0, 0), Number(1, -6), Number(2, -6), Number(1, -5),
      Number(5, -5), Number(1, -4), Number(1, -3), Number(5, -3), Number(1, -2),
      Number(5, -2), Number(12, -2), Number(13, -2), Number(1, 0) }
Freqs ==
    { Number(0, 0), Number(1, -6), Number(1, -4), Number(5, -4), Number(2, 5),
      Number(3, 5), Number(5, 6), Number(6, 6), Number(2, 7), Number(3, 7) }

\* Src2722.currRanges
currRanges ==
    << [full |-> Number(1, -6), name |-> "R1uA"],
       [full |-> Number(1, -5), name |-> "R10uA"],
       [full |-> Number(1, -4), name |-> "R100uA"],
       [full |-> Number(1, -3), name |-> "R1mA"],
       [full |-> Number(1, -2), name |-> "R10mA"],
       [full |-> Number(12, -2), name |-> "R120mA"] >>

\* fault variant: a range is taken only when currLimit is below its full scale
CurrRangeBelow(currLimit) ==
    LET fit == {i \in 1..Len(currRanges) : Lt(currLimit, currRanges[i].full)}
    IN  IF fit = {} THEN 0 ELSE CHOOSE i \in fit : \A j \in fit : i <= j

\* `for crange in self.currRanges: if currLimit <= crange[0]: ... break`;
\* 0 stands for the else branch of the for
CurrRange(currLimit) ==
    LET fit == {i \in 1..Len(currRanges) : Le(currLimit, currRanges[i].full)}
    IN  IF fit = {} THEN 0 ELSE CHOOSE i \in fit : \A j \in fit : i <= j

\* Src2722.checkChannel for an int channel
CheckChannel(channel) == 1 <= channel /\ channel <= 3

\* the writes of Src2722.configVoltSrc
VoltSrcCmds(a) ==
    << Write(IF Le(AbsNum(a.volt), Number(2, 0))
             THEN "VOLT:RANG R2V, <chnl>" ELSE "VOLT:RANG R20V, <chnl>",
             SrcArg(a.channel, None, NoRng), TRUE),
       Write("VOLT <volt>,<chnl>", SrcArg(a.channel, a.volt, NoRng), TRUE),
       Write("CURR:RANG <range>,<chnl>",
             SrcArg(a.channel, None, currRanges[CurrRange(a.curr)].name), TRUE),
       Write("CURR:LIM <currLimit>,<chnl>", SrcArg(a.channel, a.curr, NoRng), TRUE) >>

\* SrcHameg's self.channels as __init__ sets it by default
nrOfChannels == 3

\* the channels enableOutputs walks through: range(1, self.channels + 1) in
\* SrcHameg, range(0, 3) with i + 1 in Hmp4030
OutputChannels(w) == IF w = "SrcHameg" THEN nrOfChannels ELSE 3

\* fault variant: channel i is selected by bit i of mask
MaskBitShifted(mask, i) == (mask \div (2 ^ i)) % 2 = 1

\* `mask & bit != 0` with bit = 1, 2, 4, ... and `(mask & 1<<i) != 0`:
\* channel i is selected by bit i - 1 of mask
MaskBit(mask, i) == (mask \div (2 ^ (i - 1))) % 2 = 1

\* the channel-select command, the selection command and the general
\* output command of SrcHameg and of Hmp4030
SelectCmd(w, i) ==
    Write(IF w = "SrcHameg" THEN "INST OUTP<chnl>" ELSE "INST OUT<chnl>;",
          SrcArg(i, None, NoRng), TRUE)
SelCmd(w, on) ==
    Write(IF w = "SrcHameg" THEN (IF on THEN "OUTP:SEL 1" ELSE "OUTP:SEL 0")
          ELSE (IF on THEN "OUTP:SEL 1;" ELSE "OUTP:SEL 0;"),
          SrcArg(0, None, NoRng), TRUE)
GenCmd(w, state) ==
    Write(IF w = "SrcHameg" THEN (IF state THEN "OUTP:GEN 1" ELSE "OUTP:GEN 0")
          ELSE (IF state THEN "OUTP:GEN ON;" ELSE "OUTP:GEN OFF;"),
          SrcArg(0, None, NoRng), TRUE)

\* the writes of enableOutputs(mask, state)
EnableCmds(w, a) ==
    [k \in 1..(2 * OutputChannels(w) + 1) |->
        IF k = 2 * OutputChannels(w) + 1 THEN GenCmd(w, a.state)
        ELSE IF k % 2 = 1 THEN SelectCmd(w, (k + 1) \div 2)
        ELSE SelCmd(w, MaskBit(a.mask, k \div 2))]

ChannelOps ==
    {"setVoltage", "setCurrent", "configVoltSrc", "configCurrSrc",
     "readVoltage", "readCurrent"}

\* the writes of the SrcHameg channel methods, up to the point where the
\* method asks, returns or fails to build a command
ChannelCmds(o, a) ==
    LET sel == SelectCmd("SrcHameg", a.channel)
        val(c, v) == Write(c, SrcArg(0, v, NoRng), TRUE)
    IN  CASE o = "setVoltage" -> <<sel, val("VOLT <%.3f>", a.volt)>>
          [] o = "setCurrent" ->
                <<Write("INST OUTP<chnl>;", SrcArg(a.channel, None, NoRng), TRUE),
                  val("CURR <%.3f>", a.curr)>>
          [] o = "configVoltSrc" ->
                <<sel, val("VOLT:PROT <%f>", a.volt), val("CURR <%f>", a.curr)>>
          [] o = "configCurrSrc" -> <<sel, val("VOLT:PROT <%f>", a.volt)>>
          [] o \in {"readVoltage", "readCurrent"} -> <<sel>>

\* the writes of the method in progress
SourceCmds(w, o, a) ==
    CASE o = "enableOutputs" -> EnableCmds(w, a)
      [] o = "setFrequency" -> <<Write("FREQ <freq>", SrcArg(0, a.freq, NoRng), TRUE)>>
      [] o = "configVoltSrc" /\ w = "Src2722" -> VoltSrcCmds(a)
      [] OTHER -> ChannelCmds(o, a)

SourceOps == ChannelOps \cup {"enableOutputs", "setFrequency"}

\* a call that goes on to its writes
Send ==
    /\ pc' = "send"
    /\ result' = Running

\* a call that ends before any write
Ends(r) ==
    /\ pc' = "done"
    /\ result' = r

\* the locals of a call that has no reading yet
Fresh ==
    /\ io' = <<>>
    /\ elapsed' = 0
    /\ measured' = <<>>
    /\ replies' = <<>>
    /\ samples' = <<>>
    /\ logged' = <<>>
    /\ UNCHANGED <<self, handle, opened, function, device, slots, errorCount, outOfLimits>>

\* Src2722.configVoltSrc(channel, volt, currLimit): checkChannel and the
\* choice of the current range
CallConfigVoltSrc2722 ==
    /\ pc = "idle"
    /\ self = "Src2722"
    /\ op' = "configVoltSrc"
    /\ \E ch \in ChannelNumbers, v \in Volts, c \in CurrLimits :
         /\ args' = [channel |-> ch, volt |-> v, curr |-> c]
         /\ IF ~CheckChannel(ch) \/ CurrRange(c) = 0
            THEN Ends(ReturnFalse)
            ELSE Send
    /\ Fresh

\* a SrcHameg channel method: `if channel > self.channels: ... raise`, a
\* raise with no exception to raise again
CallChannelOp(o, volts, currs) ==
    /\ pc = "idle"
    /\ self = "SrcHameg"
    /\ op' = o
    /\ \E ch \in ChannelNumbers, v \in volts, c \in currs :
         /\ args' = [channel |-> ch, volt |-> v, curr |-> c]
         /\ IF ch > nrOfChannels
            THEN Ends(Raise("RuntimeError"))
            ELSE Send
    /\ Fresh

CallSetVoltage == CallChannelOp("setVoltage", Volts, {None})
CallSetCurrent == CallChannelOp("setCurrent", {None}, CurrLimits)
CallConfigVoltSrc == CallChannelOp("configVoltSrc", Volts, {Number(1, -2), Number(1, 0)})
CallConfigCurrSrc == CallChannelOp("configCurrSrc", Volts, {Number(1, -2), Number(1, 0)})
CallReadVoltage == CallChannelOp("readVoltage", {None}, {None})
CallReadCurrent == CallChannelOp("readCurrent", {None}, {None})

MaxMask == 8

\* enableOutputs(mask, state) of SrcHameg and Hmp4030
CallEnableOutputs ==
    /\ pc = "idle"
    /\ self \in {"SrcHameg", "Hmp4030"}
    /\ op' = "enableOutputs"
    /\ \E m \in 0..MaxMask, st \in BOOLEAN :
         args' = [mask |-> m, state |-> st]
    /\ Send
    /\ Fresh

\* Gen33220.functions
functions == {"SIN", "SQU", "RAMP", "PULS", "NOIS", "DC", "USER"}

\* the limits setFrequency applies for the remembered function (NOIS and DC
\* have none)
FreqLimits(fn) ==
    CASE fn \in {"SIN", "SQU"} -> <<Number(1, -6), Number(2, 7)>>
      [] fn = "RAMP" -> <<Number(1, -6), Number(2, 5)>>
      [] fn = "PULS" -> <<Number(5, -4), Number(5, 6)>>
      [] fn = "USER" -> <<Number(1, -6), Number(6, 6)>>
      [] OTHER -> <<>>

\* fOk of setFrequency
FreqOk(fn, freq) ==
    \/ FreqLimits(fn) = <<>>
    \/ ~(Lt(freq, FreqLimits(fn)[1]) \/ Lt(FreqLimits(fn)[2], freq))

\* Gen33220.setFrequency(freq)
CallSetFrequency ==
    /\ pc = "idle"
    /\ self = "Gen33220"
    /\ op' = "setFrequency"
    /\ \E f \in Freqs :
         /\ args' = [freq |-> f]
         /\ IF ~FreqOk(function, f) THEN Ends(ReturnFalse) ELSE Send
    /\ Fresh

\* Gen33220.selectFunction(function): function.upper(), the membership
\* test, `self.function = function` and then the write of 'FUNC ...'
SelectFunction ==
    /\ pc = "idle"
    /\ self = "Gen33220"
    /\ op' = "selectFunction"
    /\ pc' = "done"
    /\ \E f \in {Name(n, c) : n \in functions \cup {"TRI", ""}, c \in {"upper", "lower"}} :
         /\ args' = [function |-> f]
         /\ IF Upper(f).name \notin functions
            THEN /\ io' = <<>>
                 /\ result' = ReturnFalse
                 /\ UNCHANGED <<function, device>>
            ELSE /\ function' = Upper(f).name
                 /\ IF handle = "None"
                    THEN /\ io' = <<>>
                         /\ result' = Raise("AttributeError")
                         /\ UNCHANGED device
                    ELSE \E ok \in BOOLEAN :
                           /\ io' = <<Write("FUNC <function>", SrcArg(0, Str(<<Upper(f).name>>), NoRng), ok)>>
                           /\ result' = IF ok THEN ReturnTrue ELSE Raise("TransportError")
                           /\ device' = IF ok THEN Upper(f).name ELSE device
    /\ UNCHANGED <<self, handle, opened, slots, errorCount, logged, outOfLimits,
                 elapsed, measured, replies, samples>>

\* one `self.handle.write(cmd)` of the method in progress; on a handle that
\* is None it raises AttributeError.  After the last write the read methods
\* ask, configCurrSrc fails on `"CURR %f" + current` (str + float), the
\* others return True.
SourceWrite ==
    /\ op \in SourceOps
    /\ self \in Sources
    /\ pc = "send"
    /\ LET cmds == SourceCmds(self, op, args)
           k == Len(io) + 1
       IN  IF handle = "None"
           THEN /\ result' = Raise("AttributeError")
                /\ pc' = "done"
                /\ UNCHANGED io
           ELSE \E ok \in BOOLEAN :
                  /\ io' = Append(io, [cmds[k] EXCEPT !.ok = ok])
                  /\ IF ~ok
                     THEN result' = Raise("TransportError") /\ pc' = "done"
                     ELSE IF k < Len(cmds)
                     THEN result' = result /\ pc' = "send"
                     ELSE IF op \in {"readVoltage", "readCurrent"}
                     THEN result' = result /\ pc' = "ask"
                     ELSE IF op = "configCurrSrc"
                     THEN result' = Raise("TypeError") /\ pc' = "done"
                     ELSE result' = ReturnTrue /\ pc' = "done"
    /\ UNCHANGED <<self, handle, opened, function, device, slots, errorCount, logged, outOfLimits,
                 op, args, elapsed, measured, replies, samples>>

\* `rdg = self.handle.ask(cmd)` and `float(rdg)` of readVoltage and
\* readCurrent
SourceAsk ==
    /\ op \in {"readVoltage", "readCurrent"}
    /\ self = "SrcHameg"
    /\ pc = "ask"
    /\ pc' = "done"
    /\ LET cmd == IF op = "readVoltage" THEN "MEAS:VOLT?" ELSE "MEAS:CURR?"
       IN  \/ /\ io' = Append(io, [Ask(cmd, FALSE) EXCEPT !.arg = SrcArg(0, None, NoRng)])
              /\ result' = Raise("TransportError")
              /\ UNCHANGED replies
           \/ \E r \in ScalarReplies :
                /\ io' = Append(io, [Ask(cmd, TRUE) EXCEPT !.arg = SrcArg(0, None, NoRng)])
                /\ replies' = <<r>>
                /\ result' = IF FloatOk(r) THEN ReturnReading(Float(FloatVal(r)))
                             ELSE Raise("ValueError")
    /\ UNCHANGED <<self, handle, opened, function, device, slots, errorCount, logged, outOfLimits,
                 op, args, elapsed, measured, samples>>

-----------------------------------------------------------------------------
(* Between calls *)

\* the method has ended and the caller goes on: the locals, the outcome and
\* the record of the handle traffic of the call are dropped, the
\* attributes of the object stay
Return ==
    /\ pc = "done"
    /\ op \in {"configScan", "config", "configDmm", "scanSlots", "checkList",
               "checkSwitchNumber", "controlSwitch", "readSwitch", "read",
               "getErrorCount", "open", "close", "selectFunction"}
              \cup Checked \cup SourceOps
    /\ ~Nested
    /\ op' = "none"
    /\ pc' = "idle"
    /\ args' = [count |-> 0, timeout |-> 0]
    /\ io' = <<>>
    /\ elapsed' = 0
    /\ measured' = <<>>
    /\ replies' = <<>>
    /\ samples' = <<>>
    /\ result' = Running
    /\ logged' = <<>>
    /\ UNCHANGED <<self, handle, opened, function, device, slots, errorCount, outOfLimits>>

-----------------------------------------------------------------------------
(* The wrappers under every call sequence *)

Init ==
    /\ self \in Wrappers
    /\ handle = "open"
    /\ opened = TRUE
    /\ function = "SIN"
    /\ device = "SIN"
    /\ slots = <<>>
    /\ errorCount = 0
    /\ logged = <<>>
    /\ outOfLimits = 0
    /\ op = "none"
    /\ pc = "idle"
    /\ args = [count |-> 0, timeout |-> 0]
    /\ io = <<>>
    /\ elapsed = 0
    /\ measured = <<>>
    /\ replies = <<>>
    /\ samples = <<>>
    /\ result = Running

Next ==
    \/ CallStartOverlapped
    \/ ArmWrite
    \/ CallWaitOverlappedDone
    \/ PollIteration
    \/ DrainIteration
    \/ ReturnSamples
    \/ CallRead
    \/ ReadWrite
    \/ ReadPoll
    \/ ReadReply

Spec == Init /\ [][Next]_vars

-----------------------------------------------------------------------------
(* The block decoders over every short reply *)

Alphabet == {"#", "1", "2", ".", " ", "X"}

\* every reply of at most MaxLen characters, and the two example blocks
Blocks ==
    UNION {[1..k -> Alphabet] : k \in 0..MaxLen}
      \cup { <<"#", "1", "5", "+", "1", ".", "2", "3", "4">>,
             <<"#", "2", "9", "1", "1", "1", "1", "1", "1", "1", "1", "1">> }

CallWaitOverlappedDoneOne == CallWaitOverlappedDoneWith({1})
DrainIterationBlocks == DrainIterationFrom(Blocks)
ReadReplyBlocks == ReadReplyFrom(Blocks)

DecodeNext ==
    \/ CallWaitOverlappedDoneOne
    \/ PollIteration
    \/ DrainIterationBlocks
    \/ ReturnSamples
    \/ CallRead
    \/ ReadWrite
    \/ ReadPoll
    \/ ReadReplyBlocks

DecodeSpec == Init /\ [][DecodeNext]_vars

-----------------------------------------------------------------------------
(* waitOverlappedDone with a handle that always answers and a clock that   *)
(* advances                                                                *)

WaitNext ==
    \/ CallWaitOverlappedDone
    \/ PollClockAdvances
    \/ DrainIteration
    \/ ReturnSamples

\* every ask returns or raises, so each loop goes on to its next turn
WaitSpec ==
    /\ Init
    /\ [][WaitNext]_vars
    /\ WF_vars(PollClockAdvances)
    /\ WF_vars(DrainIteration)
    /\ WF_vars(ReturnSamples)

-----------------------------------------------------------------------------
(* The configuration, channel-list and switch methods under every call  *)
(* sequence                                                             *)

ConfigInit ==
    /\ self \in Configurable
    /\ handle = "open"
    /\ opened = TRUE
    /\ function = "SIN"
    /\ device = "SIN"
    /\ slots = <<>>
    /\ errorCount = 0
    /\ logged = <<>>
    /\ outOfLimits = 0
    /\ op = "none"
    /\ pc = "idle"
    /\ args = [count |-> 0, timeout |-> 0]
    /\ io = <<>>
    /\ elapsed = 0
    /\ measured = <<>>
    /\ replies = <<>>
    /\ samples = <<>>
    /\ result = Running

ConfigNext ==
    \/ CallConfig
    \/ ConfigCheck
    \/ ConfigWrite
    \/ CallScanSlots
    \/ ScanSlot
    \/ CallCheckList
    \/ ControlSwitch
    \/ CallReadSwitch
    \/ ReadSwitchAsk
    \/ ReadSwitchOpen
    \/ CallCheckSwitchNumber
    \/ ControlSwitch3706
    \/ CallRead3706
    \/ CallReadSwitch3706
    \/ ReadMeasure
    \/ ReadDelete
    \/ ReadSwitchOpen3706
    \/ Return

ConfigSpec == ConfigInit /\ [][ConfigNext]_vars

-----------------------------------------------------------------------------
(* The limit checks of error.py on a Daq34972, with a new Errors instance *)

LimitInit ==
    /\ self = "Daq34972"
    /\ handle = "open"
    /\ opened = TRUE
    /\ function = "SIN"
    /\ device = "SIN"
    /\ slots = <<>>
    /\ errorCount = 0
    /\ logged = <<>>
    /\ outOfLimits = 0
    /\ op = "none"
    /\ pc = "idle"
    /\ args = [count |-> 0, timeout |-> 0]
    /\ io = <<>>
    /\ elapsed = 0
    /\ measured = <<>>
    /\ replies = <<>>
    /\ samples = <<>>
    /\ result = Running

LimitNext ==
    \/ CallChkLimits
    \/ CallSwitchAndCheck
    \/ ReadSwitchAsk
    \/ ReadSwitchOpen
    \/ SwitchRead
    \/ CallMeasureAndCheckSwich
    \/ ConfigCheck
    \/ ConfigWrite
    \/ MeasureRead
    \/ ChkLimitsTest
    \/ LogError
    \/ BumpError
    \/ LogText
    \/ CallGetErrorCount
    \/ Return

LimitSpec == LimitInit /\ [][LimitNext]_vars

\* the wrappers from construction, under every sequence of open, close and
\* the source and generator methods
SourceInit ==
    /\ self \in Sources
    /\ handle = "None"
    /\ opened = FALSE
    /\ function = "SIN"
    /\ device = "SIN"
    /\ slots = <<>>
    /\ errorCount = 0
    /\ logged = <<>>
    /\ outOfLimits = 0
    /\ op = "none"
    /\ pc = "idle"
    /\ args = [count |-> 0, timeout |-> 0]
    /\ io = <<>>
    /\ elapsed = 0
    /\ measured = <<>>
    /\ replies = <<>>
    /\ samples = <<>>
    /\ result = Running

SourceNext ==
    \/ Open
    \/ Close
    \/ CallConfigVoltSrc2722
    \/ CallSetVoltage
    \/ CallSetCurrent
    \/ CallConfigVoltSrc
    \/ CallConfigCurrSrc
    \/ CallReadVoltage
    \/ CallReadCurrent
    \/ CallEnableOutputs
    \/ CallSetFrequency
    \/ SelectFunction
    \/ SourceWrite
    \/ SourceAsk
    \/ Return

SourceSpec == SourceInit /\ [][SourceNext]_vars


-----------------------------------------------------------------------------
(* Properties of the overlapped acquisition *)

InWait == op = "waitOverlappedDone"
LastReply == replies[Len(replies)]

\* the positions in io of the counter queries that returned n
CounterReturned(n) ==
    {i \in 1..Len(io) : io[i].cmd = ":DATA:POIN?;" /\ io[i].got = <<n>>}

DrainRequests == {i \in 1..Len(io) : io[i].cmd = "R? 1;"}

\* C1: in waitOverlappedDone of Daq34972 and Dvm34411, as long as no counter
\* query has returned count, no drain request 'R? 1;' has been written and
\* no sample is held; the loop polls again only while the elapsed time read
\* is within the timeout; and a call that ends without a counter query
\* having returned count and without an exception has read an elapsed time
\* above the timeout and returns False.
C1_TimeoutNoDrain ==
    (InWait /\ self \in {"Daq34972", "Dvm34411"} /\ CounterReturned(args.count) = {}) =>
        /\ DrainRequests = {}
        /\ samples = <<>>
        /\ ~ReturnedList(result)
        /\ pc = "poll" => elapsed <= args.timeout
        /\ (pc = "done" /\ ~Raised(result)) =>
               ReturnedFalse(result) /\ elapsed > args.timeout

\* a call that polled more than once and then timed out
C1_Witness ==
    /\ InWait /\ self \in {"Daq34972", "Dvm34411"}
    /\ pc = "done"
    /\ CounterReturned(args.count) = {}
    /\ Len(io) >= 2
    /\ elapsed > args.timeout
    /\ ReturnedFalse(result)

\* C2: a Daq34972.waitOverlappedDone that returns a list returns exactly
\* count readings, the i-th being the decoding of the i-th reply to 'R? 1;';
\* exactly count 'R? 1;' requests were issued, all of them after the counter
\* query that returned count.
C2_DrainInOrder ==
    (InWait /\ self = "Daq34972" /\ pc = "done" /\ ReturnedList(result)) =>
        /\ Len(result.value) = args.count
        /\ Len(replies) = args.count
        /\ \A i \in 1..Len(result.value) :
               /\ i <= Len(replies)
               /\ DecodeBlock(self, replies[i]).kind = "decoded"
               /\ result.value[i] = DecodeBlock(self, replies[i]).value
        /\ Cardinality(DrainRequests) = args.count
        /\ \E k \in CounterReturned(args.count) : \A j \in DrainRequests : k < j

\* two different readings returned after more than one poll
C2_Witness ==
    /\ InWait /\ self = "Daq34972" /\ pc = "done" /\ ReturnedList(result)
    /\ args.count = 2
    /\ result.value[1] # result.value[2]
    /\ Cardinality({i \in 1..Len(io) : io[i].cmd = ":DATA:POIN?;"}) >= 2

\* C3: in every wrapper's waitOverlappedDone, a transport failure of the
\* counter query or of a drain read ends the call at once and the transport
\* exception propagates to the caller; it is never turned into a return
\* value.  (Src2722 returns False instead.)
C3_TransportFailurePropagates ==
    (InWait /\ \E i \in 1..Len(io) : ~io[i].ok) =>
        /\ ~io[Len(io)].ok
        /\ pc = "done"
        /\ RaisedExc(result, "TransportError")

\* ceil(a / b) for a > 0, b > 0
CeilDiv(a, b) == (a + b - 1) \div b

InArm == op = "startOverlapped" /\ self \in {"Daq34972", "Dvm34411"}

\* C4: startOverlapped(period, total) with period > 0 and total > 0 writes
\* ':SAMP:COUN' with the integer ceil(total / period).  (The code writes the
\* quotient total / period itself.)
C4_SampleCountIsCeil ==
    (InArm /\ args.period > 0 /\ args.total > 0) =>
        \A i \in 1..Len(io) :
            (io[i].cmd = ":SAMP:COUN" /\ io[i].ok) =>
                io[i].arg = Num(CeilDiv(args.total, args.period))

\* C5: startOverlapped(period, total) with period <= 0 or total <= 0 writes
\* nothing to the handle and ends with an invalid-timing error; stated for
\* the runs in which the transport does not fail.  (The code validates
\* nothing.)
C5_InvalidTimingRejected ==
    (InArm /\ (args.period <= 0 \/ args.total <= 0) /\ \A i \in 1..Len(io) : io[i].ok) =>
        /\ io = <<>>
        /\ pc = "done" => RaisedExc(result, "InvalidTiming")

\* the drain loop of the running call stopped at a reply it could not decode
DrainDecodeFailed ==
    /\ InWait
    /\ replies # <<>>
    /\ DecodeBlock(self, LastReply).kind # "decoded"

\* C6: a decode failure on the i-th reply of the drain loop ends the call:
\* no further 'R? 1;' is issued, no sample list is returned, and the outcome
\* reported to the caller identifies the index i (counted from 0) of the
\* bad sample.  (No outcome of the code carries an index.)
C6_DecodeFailureReportsIndex ==
    (DrainDecodeFailed /\ self = "Daq34972") =>
        /\ pc = "done"
        /\ Cardinality(DrainRequests) = Len(replies)
        /\ ~ReturnedList(result)
        /\ result.index = <<Len(replies) - 1>>

\* the i-th access to the handle is a counter query
CounterQuery(i) == io[i].m = "ask" /\ io[i].cmd = ":DATA:POIN?;"

\* C27: while waitOverlappedDone of Daq34972 and Dvm34411 polls, a counter
\* query that did not return count is followed by a sleep before the next
\* counter query: no two counter queries follow each other directly.  (The
\* loop body holds the query, the comparison and the timeout test and no
\* time.sleep, so the next query is the very next thing the call does.)
C27_SleepBetweenPolls ==
    (InWait /\ self \in {"Daq34972", "Dvm34411"}) =>
        \A i \in 1..(Len(io) - 1) : ~(CounterQuery(i) /\ CounterQuery(i + 1))

\* a waitOverlappedDone of Daq34972 or Dvm34411 that has not ended
Waiting == InWait /\ self \in {"Daq34972", "Dvm34411"} /\ pc # "done"

\* it has ended, in one of the three outcomes
WaitEnded ==
    /\ InWait /\ pc = "done"
    /\ \/ ReturnedList(result) /\ Len(result.value) = args.count
       \/ ReturnedFalse(result)
       \/ Raised(result)

\* C30: with a handle whose queries return or raise and a clock that
\* advances between polls, every waitOverlappedDone of Daq34972 and
\* Dvm34411, for every count >= 0 and timeout >= 0, ends: in a list of count
\* samples, in False or in a raised exception; and a call that ended in the
\* timeout has issued at least one counter query.
C30_WaitTerminates ==
    /\ Waiting ~> WaitEnded
    /\ [](InWait /\ self \in {"Daq34972", "Dvm34411"} =>
            /\ pc = "done" => WaitEnded
            /\ (pc = "done" /\ ReturnedFalse(result) /\ DrainRequests = {}) =>
                   /\ \E i \in 1..Len(io) : CounterQuery(i)
                   /\ elapsed > args.timeout)

\* a call that timed out after polling as often as the clock allows
C30_Witness ==
    /\ InWait /\ self \in {"Daq34972", "Dvm34411"}
    /\ pc = "done" /\ ReturnedFalse(result)
    /\ args.timeout = MaxTimeout
    /\ CountCmd(io, ":DATA:POIN?;") = MaxTimeout + 1

\* the six arm commands in the order the claim gives them
ArmOrder ==
    <<":TRIG:SOUR BUS;", ":SAMP:COUN", ":SAMP:SOUR TIM;", ":SAMP:TIM", ":INIT:IMM;", "*TRG;">>

\* C29: startOverlapped of Daq34972 and Dvm34411 writes its arm commands in
\* the order trigger source, sample count, sample source, sample timer,
\* INIT, *TRG: the i-th write of a call is the i-th command of that order,
\* '*TRG;' is written only as the sixth write after five writes that
\* succeeded, a write that raised is the last write of the call, and the
\* call returns True only after all six.
C29_ArmOrderTriggerLast ==
    InArm =>
        /\ Len(io) <= Len(ArmOrder)
        /\ \A i \in 1..Len(io) :
               /\ io[i].m = "write"
               /\ io[i].cmd = ArmOrder[i]
               /\ i < Len(io) => io[i].ok
               /\ io[i].cmd = "*TRG;" =>
                      /\ i = 6
                      /\ \E j \in 1..(i - 1) : io[j].cmd = ":INIT:IMM;" /\ io[j].ok
        /\ (\E i \in 1..Len(io) : ~io[i].ok) => pc = "done" /\ Raised(result)
        /\ ReturnedTrue(result) => Len(io) = 6 /\ io[6].ok

\* a call that wrote all six commands, the trigger last, and returned True
C29_Witness ==
    /\ InArm /\ pc = "done"
    /\ ReturnedTrue(result)
    /\ Len(io) = 6
    /\ io[5].cmd = ":INIT:IMM;" /\ io[6].cmd = "*TRG;"

-----------------------------------------------------------------------------
(* Properties of the block decoding *)

\* a reply has been received and decoded by the running waitOverlappedDone
\* or Dvm34411.read
Fetched == op \in {"waitOverlappedDone", "read"} /\ replies # <<>>

\* the last reply produced a reading
ProducedReading ==
    IF op = "read" THEN result.type = "reading"
    ELSE Len(samples) = Len(replies)

\* what the decoding of the last reply gave: the reading, or the way the
\* call ended
Outcome ==
    IF op = "read" THEN result
    ELSE IF Len(samples) = Len(replies)
         THEN ReturnReading(samples[Len(samples)])
         ELSE result

SameOutcome(a, b) == a.kind = b.kind /\ a.type = b.type /\ a.value = b.value

\* the DLB header '#' d <d length digits> of a reply is well formed
HeaderOk(r) ==
    /\ Len(r) >= 2
    /\ r[1] = "#"
    /\ r[2] \in Digits
    /\ Len(r) >= 2 + DigitVal(r[2])
    /\ DigitVal(r[2]) >= 1
    /\ AllDigits(SubSeq(r, 3, 2 + DigitVal(r[2])))

HeaderLen(r) == 2 + DigitVal(r[2])

\* the declared payload length L, and the bytes available after the header
DeclaredLen(r) == DecVal(SubSeq(r, 3, HeaderLen(r)))
Available(r) == Len(r) - HeaderLen(r)

\* the reply cut after its L payload bytes
ExactBlock(r) == SubSeq(r, 1, HeaderLen(r) + DeclaredLen(r))

\* the outcome the running decoder gives for reply r on its own
DecoderOutcome(r) ==
    LET d == IF op = "read" THEN DecodeRead(r) ELSE DecodeBlock(self, r)
    IN  IF d.kind = "decoded" THEN ReturnReading(d.value) ELSE d

\* C7: a reply whose declared length L exceeds the bytes available after
\* the header never decodes to a reading.  (The code never reads L.)
C7_ShortPayloadRejected ==
    (Fetched /\ HeaderOk(LastReply) /\ DeclaredLen(LastReply) > Available(LastReply)) =>
        ~ProducedReading

\* C8: the decoded value depends only on the header and the L payload bytes
\* that follow it: a reply decodes as the same reply cut after its L payload
\* bytes does.  (The code takes every byte after the header.)
C8_ExactlyLBytes ==
    (Fetched /\ HeaderOk(LastReply) /\ DeclaredLen(LastReply) <= Available(LastReply)) =>
        SameOutcome(Outcome, DecoderOutcome(ExactBlock(LastReply)))

\* C9: a reply whose first byte is not '#', the empty reply included, ends
\* the call with the format failure as a return value (False): no reading
\* is produced and no exception escapes.  (The empty reply raises
\* IndexError.)
C9_MissingMarkerIsFalse ==
    (Fetched /\ (LastReply = <<>> \/ LastReply[1] # "#")) =>
        /\ ~ProducedReading
        /\ pc = "done"
        /\ ReturnedFalse(result)

\* C10: a reply that starts with '#' but whose second byte is absent or not
\* a decimal digit ends the call like the missing-marker failure, with a
\* return value and not with an escaping conversion exception.  (int()
\* raises ValueError, the index raises IndexError.)
C10_BadDigitCountIsFalse ==
    (Fetched /\ LastReply # <<>> /\ LastReply[1] = "#"
        /\ (Len(LastReply) < 2 \/ LastReply[2] \notin Digits)) =>
        /\ ~ProducedReading
        /\ pc = "done"
        /\ ReturnedFalse(result)

\* what wrapper w's drain loop, and Dvm34411.read, make of reply r
DrainOutcome(w, r) ==
    IF DecodeBlock(w, r).kind = "decoded"
    THEN ReturnReading(DecodeBlock(w, r).value)
    ELSE DecodeBlock(w, r)

ReadOutcome(r) ==
    IF DecodeRead(r).kind = "decoded" THEN ReturnReading(DecodeRead(r).value)
    ELSE DecodeRead(r)

\* C11: block decoding is one routine: the outcome of decoding a reply is
\* the same in the drain loop of every wrapper and in Dvm34411.read, and a
\* reading it produces is a float.  (Dvm34411 and Src2722 keep the stripped
\* text in the drain loop; Daq34972 and Dvm34411.read convert to float.)
C11_OneSharedDecoder ==
    Fetched =>
        /\ \A w \in Wrappers : SameOutcome(Outcome, DrainOutcome(w, LastReply))
        /\ SameOutcome(Outcome, ReadOutcome(LastReply))
        /\ ProducedReading => Outcome.value.t = "float"

-----------------------------------------------------------------------------
(* Properties of the configuration calls *)

InConfig == op \in {"configScan", "config", "configDmm"}

\* every check of the running configuration call lets its arguments pass
ArgumentsPass ==
    /\ CheckFunc(self, args).kind = "running"
    /\ CheckRange(self, args).kind = "running"
    /\ CheckNplc(self, args).kind = "running"
    /\ self = "Daq34972" => CheckScanList(self, slots, args).kind = "running"

\* C12: configScan, config and configDmm validate before they write: a call
\* that returns False has written no command to the handle, and a call
\* that has written a command had arguments that pass every check.
C12_RejectionWritesNothing ==
    InConfig =>
        /\ ReturnedFalse(result) => io = <<>>
        /\ io # <<>> => ArgumentsPass

\* a configScan whose function, range and NPLC pass and whose channel list
\* is refused by the last check before the writes
C12_Witness ==
    /\ op = "configScan"
    /\ pc = "done"
    /\ ReturnedFalse(result)
    /\ CheckRange(self, args).kind = "running"
    /\ CheckNplc(self, args).kind = "running"
    /\ args.rng # AUTO
    /\ ReturnedFalse(CheckScanList(self, slots, args))
    /\ io = <<>>

\* the function name of the running call is no key of the wrapper's table,
\* in whatever case it is written
UnknownFunction == args.func.name \notin DOMAIN ranges(self)

\* C13: for a function name that is no key of the table, configScan, config
\* and configDmm write no command and return False, whatever rng and nplc
\* are.  (The illegal-function test is never true: the call raises KeyError
\* at ranges[func], or goes on and writes the commands.)
C13_UnknownFunctionRejected ==
    (InConfig /\ UnknownFunction) =>
        /\ io = <<>>
        /\ pc = "done" => ReturnedFalse(result)

\* the function of the running call is a key of the table with a
\* (min, max) pair, and rng is a number
ExplicitRange ==
    /\ args.func.name \in DOMAIN ranges(self)
    /\ ranges(self)[args.func.name] # <<>>
    /\ args.rng.t = "float"

minR == ranges(self)[args.func.name][1]
maxR == ranges(self)[args.func.name][2]

\* C14: for a function with range bounds (minR, maxR), configScan and config
\* accept a numeric rng exactly when minR <= rng <= maxR: a value below
\* minR or above maxR makes the call return False at the range check, with
\* nothing written, and for a value within the bounds, the bounds
\* themselves included, a False return comes from the NPLC check or the
\* channel-list check only.
C14_RangeAcceptedWithinBounds ==
    (op \in {"configScan", "config"} /\ ExplicitRange) =>
        /\ (Lt(args.rng, minR) \/ Lt(maxR, args.rng)) =>
              \/ pc \in {"func", "range"}
              \/ pc = "done" /\ ReturnedFalse(result) /\ io = <<>>
        /\ (~Lt(args.rng, minR) /\ ~Lt(maxR, args.rng)) =>
              /\ ~Raised(result) \/ RaisedExc(result, "TransportError")
                    \/ Raised(CheckScanList(self, slots, args))
              /\ (pc = "done" /\ ReturnedFalse(result)) =>
                    \/ ReturnedFalse(CheckNplc(self, args))
                    \/ self = "Daq34972" /\ ReturnedFalse(CheckScanList(self, slots, args))

\* a call with rng equal to a bound that went through and returned True
C14_Witness ==
    /\ op \in {"configScan", "config"}
    /\ ExplicitRange
    /\ args.rng \in {Float(minR), Float(maxR)}
    /\ pc = "done"
    /\ ReturnedTrue(result)

\* the function of the running call is a key of the table with a
\* (min, max) pair, and rng is the wrapper's default: 'AUTO', or 'auto' for
\* Daq3706
DefaultRange ==
    /\ args.func.name \in DOMAIN ranges(self)
    /\ ranges(self)[args.func.name] # <<>>
    /\ args.rng = IF self = "Daq3706" THEN auto ELSE AUTO

\* no write of the running call has failed
TransportUp == \A i \in 1..Len(io) : io[i].ok

ConfCmds == {"CONF:<func> <rng>,<list>", "CONF:DIG:BYTE<list>", "CONF:<func> DEF,<list>"}
NplcCmd == "<func>:NPLC <nplc>"

\* C16: a configScan that returns True has written one function-
\* configuration command, which embeds '(@' + scanList + ')', followed by
\* one NPLC command exactly when the function is one of VOLT:DC, CURR:DC,
\* RES, FRES, TEMP, and nothing else; and at no moment of a configScan does
\* the handle log hold an NPLC command that is not preceded by the
\* configuration command.
C16_ConfThenNplc ==
    op = "configScan" =>
        /\ \A i \in 1..Len(io) :
              /\ io[i].cmd \in ConfCmds => i = 1
              /\ io[i].cmd = NplcCmd => i = 2 /\ io[1].cmd \in ConfCmds /\ io[1].ok
              /\ io[i].cmd \in ConfCmds \cup {NplcCmd}
        /\ (pc = "done" /\ ReturnedTrue(result)) =>
              /\ io # <<>>
              /\ io[1].cmd \in ConfCmds
              /\ io[1].arg.list = <<"(", "@">> \o args.scanList \o <<")">>
              /\ Len(io) = IF args.func.name \in {"VOLT:DC", "CURR:DC", "RES", "FRES", "TEMP"}
                           THEN 2 ELSE 1
              /\ Len(io) = 2 => io[2].cmd = NplcCmd /\ io[2].arg.nplc = args.nplc

\* a successful configScan of TEMP, which takes no range but takes NPLC
C16_Witness ==
    /\ op = "configScan"
    /\ pc = "done"
    /\ ReturnedTrue(result)
    /\ args.func.name = "TEMP"
    /\ Len(io) = 2
    /\ io[2].cmd = NplcCmd

\* what the checks of wrapper w make of the arguments a, taken in the order
\* function, range, NPLC, channel list: the first refusal or exception, or
\* True
Verdict(w, sl, a) ==
    LET l == CheckScanList(w, sl, a)
    IN  IF CheckFunc(w, a).kind # "running" THEN CheckFunc(w, a)
        ELSE IF CheckRange(w, a).kind # "running" THEN CheckRange(w, a)
        ELSE IF CheckNplc(w, a).kind # "running" THEN CheckNplc(w, a)
        ELSE IF w = "Daq34972" /\ l.kind # "running" THEN l
        ELSE ReturnTrue

\* the commands a call with arguments a writes when no write fails
Emitted(w, sl, a) == IF ReturnedTrue(Verdict(w, sl, a)) THEN ConfigCmds(w, a) ELSE <<>>

\* the running call does what Verdict and Emitted say of its arguments
AsComputed ==
    LET e == Emitted(self, slots, args)
    IN  /\ \A i \in 1..Len(io) :
              i <= Len(e) /\ [io[i] EXCEPT !.ok = TRUE] = e[i]
        /\ (pc = "done" /\ TransportUp) =>
              /\ SameOutcome(result, Verdict(self, slots, args))
              /\ Len(io) = Len(e)

\* the table of the wrapper gives the function no (min, max) pair
WithoutRange ==
    /\ args.func.name \in DOMAIN ranges(self)
    /\ ranges(self)[args.func.name] = <<>>

\* the function is a key of the table and takes no integration time
WithoutNplc ==
    /\ args.func.name \in DOMAIN ranges(self)
    /\ args.func.name \notin {"VOLT:DC", "CURR:DC", "RES", "FRES", "TEMP"}

\* the return value and the commands of the call are those of the same call
\* with arguments b
SameAsWith(b) ==
    /\ SameOutcome(Verdict(self, slots, b), Verdict(self, slots, args))
    /\ Emitted(self, slots, b) = Emitted(self, slots, args)

\* C17: in configScan and config, for a function without range support the
\* return value and the commands written are the same for every value of
\* rng, and for a function without NPLC support they are the same for
\* every value of nplc, the other arguments being equal.
C17_UnsupportedParameterIgnored ==
    op \in {"configScan", "config"} =>
        /\ AsComputed
        /\ (pc = "done" /\ WithoutRange) =>
              \A r \in Rngs(self) : SameAsWith([args EXCEPT !.rng = r])
        /\ (pc = "done" /\ WithoutNplc) =>
              \A n \in Nplcs(self) : SameAsWith([args EXCEPT !.nplc = n])

\* a successful configScan of FREQ, which takes neither, called with a
\* numeric rng and with an nplc above the NPLC bound
C17_Witness ==
    /\ op = "configScan"
    /\ pc = "done"
    /\ ReturnedTrue(result)
    /\ args.func.name = "FREQ"
    /\ args.rng.t = "float"
    /\ args.nplc = Float(Above(NplcBounds(self)[2]))
    /\ Len(io) = 1

-----------------------------------------------------------------------------
(* Properties of the channel lists and switch numbers *)

\* the text is a range item from:to of two integers with from > to
ReversedRange(text) ==
    LET parts == Split(Strip(text), ":")
    IN  /\ Len(parts) = 2
        /\ IntOk(parts[1]) /\ IntOk(parts[2])
        /\ IntVal(parts[1]) > IntVal(parts[2])

\* the items of the list the running checkList was given
GivenItems == Split(args.chlist, ",")

\* C18: checkList returns False for every list that contains a range item
\* from:to with from > to, whatever the other items and whether or not the
\* endpoints are channel numbers.  (An item before the range that raises
\* ends the call with the exception: any single channel in Daq3706, a text
\* that is no integer in both.)
C18_ReversedRangeRejected ==
    (op = "checkList" /\ \E i \in 1..Len(GivenItems) : ReversedRange(GivenItems[i])) =>
        ReturnedFalse(result)

\* C19: checkList ends by returning True or False for every text; no
\* exception escapes.  (int() of an item that is empty or no integer and the
\* unpacking of an item with two ':' raise ValueError.)
C19_CheckListNeverRaises ==
    op = "checkList" => ~Raised(result) /\ result.type = "bool"

\* C20: in Daq34972, controlSwitch and readSwitch accept switch n (they
\* write the close or open command) exactly when checkList accepts the
\* list 'n', and exactly when it accepts the list 'n:n'.  (Single items are
\* accepted up to 440, ranges and switches up to 399.)
C20_OneValidityPredicate ==
    (op \in {"controlSwitch", "readSwitch"} /\ self = "Daq34972") =>
        /\ io # <<>> <=> ReturnedTrue(CheckList(self, slots, IntStr(args.switch)))
        /\ io # <<>> <=>
              ReturnedTrue(CheckList(self, slots,
                                     IntStr(args.switch) \o <<":">> \o IntStr(args.switch)))
        /\ io = <<>> => pc = "done" /\ ReturnedFalse(result)

\* the switch-count ceiling of a supported card type
Ceiling(card) ==
    CASE card = Card3722 -> 96
      [] card = Card3720 -> 60
      [] card = Card3721 -> 42
      [] card = Card3723 -> 60

\* the first digit of n names a slot 1-6 of sl holding a supported card and
\* the remaining digits are a number of that card or of the backplane
LegalSwitch(sl, n) ==
    LET string == IntStr(n)
        rest == SliceFrom(string, 1)
    IN  /\ n > 0
        /\ Len(string) >= 2
        /\ DigitVal(string[1]) \in 1..6
        /\ sl[DigitVal(string[1])] \in {Card3720, Card3721, Card3722, Card3723}
        /\ \/ 1 <= DecVal(rest) /\ DecVal(rest) <= Ceiling(sl[DigitVal(string[1])])
           \/ 911 <= DecVal(rest) /\ DecVal(rest) <= 916

\* C21: with six scanned slots, Daq3706.checkSwitchNumber(n) returns True
\* exactly when the first digit of n names a slot 1-6 holding a supported
\* card and the remaining digits are in 1..ceiling of the card type or in
\* 911..916, and returns False, without raising, for every other integer.
\* (An out-of-range number of a 3722 card reaches `return False4`; a number
\* of one digit and a negative number reach int() of a text that is no
\* number.)
C21_SwitchNumberByCardType ==
    (op = "checkSwitchNumber" /\ Len(slots) = 6) =>
        IF LegalSwitch(slots, args.switch) THEN ReturnedTrue(result)
        ELSE ReturnedFalse(result)

\* the item is a channel number or a range of two channel numbers
WellFormed(text) ==
    LET parts == Split(Strip(text), ":")
    IN  /\ Len(parts) \in {1, 2}
        /\ \A j \in 1..Len(parts) : IntOk(parts[j])

\* the channel numbers an item names
Named(text) ==
    LET parts == Split(Strip(text), ":")
    IN  {IntVal(parts[j]) : j \in 1..Len(parts)}

\* C22: for a list of channel numbers and from:to ranges, Daq3706.checkList
\* returns True when from <= to in every range and every number named
\* passes checkSwitchNumber, and returns False when some number named fails
\* it; single items are treated like ranges.  (A single item calls the
\* undefined method chsckSwitchNumber.)
C22_ListOfLegalSwitches ==
    (/\ op = "checkList" /\ self = "Daq3706"
     /\ \A i \in 1..Len(GivenItems) : WellFormed(GivenItems[i])) =>
        /\ (\A i \in 1..Len(GivenItems) :
               /\ ~ReversedRange(GivenItems[i])
               /\ \A n \in Named(GivenItems[i]) :
                      ReturnedTrue(CheckSwitchNumber(slots, n)))
              => ReturnedTrue(result)
        /\ (\E i \in 1..Len(GivenItems) : \E n \in Named(GivenItems[i]) :
                 ReturnedFalse(CheckSwitchNumber(slots, n)))
              => ReturnedFalse(result)

\* the i-th access to the handle is the close (the open) command of the
\* switch of the call
ClosesSwitch(i) ==
    /\ io[i].m = "write"
    /\ io[i].cmd \in {"ROUT:CLOS <list>", "channel.close(\"<switch>\")"}
    /\ io[i].arg.list \in {IntStr(args.switch), Bracketed(IntStr(args.switch))}

OpensSwitch(i) ==
    /\ io[i].m = "write"
    /\ io[i].cmd \in {"ROUT:OPEN <list>", "channel.open(\"<switch>\")"}
    /\ io[i].arg.list \in {IntStr(args.switch), Bracketed(IntStr(args.switch))}

\* C26: a readSwitch of Daq34972 or Daq3706 that has written the close
\* command of a switch has, when it ends by return or by raise, written the
\* open command of the same switch after the read; a readSwitch that
\* returns False for an illegal switch number has written nothing.  (The
\* read and the open command stand in one try block: a read that raises
\* skips the open command.)
C26_ReadSwitchOpensAfterwards ==
    (op = "readSwitch" /\ pc = "done") =>
        /\ \A i \in 1..Len(io) : (ClosesSwitch(i) /\ io[i].ok) =>
               \E j \in (i + 2)..Len(io) : OpensSwitch(j)
        /\ (\A i \in 1..Len(io) : ~ClosesSwitch(i)) => io = <<>>

\* C28: in Daq3706.read, a failing write or query ends the call with the
\* transport exception, and False is returned only when every access to
\* the handle succeeded and the reply is no number.  (The write that
\* deletes the buffer stands in the try block of the conversion, whose
\* bare except returns False.)
C28_ReadSurfacesTransportFailure ==
    (op = "read" /\ self = "Daq3706" /\ pc = "done") =>
        /\ (\E i \in 1..Len(io) : ~io[i].ok) => RaisedExc(result, "TransportError")
        /\ ReturnedFalse(result) =>
               /\ \A i \in 1..Len(io) : io[i].ok
               /\ ~FloatOk(replies[1])

-----------------------------------------------------------------------------
(* Properties of the limit checks *)

\* chkLimits has run in the call that ended (the DMM method did not raise)
ChkLimitsRan == op \in Checked /\ pc = "done" /\ args.value.t # "none"

\* it has returned b: to the caller of chkLimits, or to switchAndCheck or
\* measureAndCheckSwich, which return after it
ChkLimitsReturned(b) ==
    /\ ChkLimitsRan
    /\ ~Raised(result)
    /\ IF op = "chkLimits" THEN result.type = "bool" /\ result.value = b
       ELSE logged = <<Line(IF b THEN "text" ELSE "error", TRUE)>>

\* C23: a chkLimits that returns True leaves the error counter as it was at
\* the call, and a chkLimits that returns False has incremented it by
\* exactly 1.
C23_CounterFollowsReturn ==
    /\ ChkLimitsReturned(TRUE) => errorCount = args.before
    /\ ChkLimitsReturned(FALSE) => errorCount = args.before + 1

\* a second failing check: the value 3.9 against (3.0, 3.6) with one error
\* counted before
C23_Witness ==
    /\ op = "chkLimits" /\ pc = "done" /\ ReturnedFalse(result)
    /\ args.value = Number(39, -1) /\ args.Min = Number(3, 0) /\ args.Max = Number(36, -1)
    /\ args.before = 1
    /\ errorCount = 2

\* C24: the error counter never decreases and is never reset, it changes
\* only by +1 and only in the bumpError of a limit check, and between calls
\* it equals the number of limit checks that failed since construction.
\* (A failed check whose logError raises, or whose line cannot be built, is
\* not counted.)
C24_CounterCountsFailedChecks ==
    /\ [][/\ errorCount' >= errorCount
          /\ errorCount' # errorCount =>
                 errorCount' = errorCount + 1 /\ op \in Checked /\ pc = "bump"]_vars
    /\ [](pc \in {"idle", "done"} => errorCount = outOfLimits)

\* C25: a chkLimits whose value is out of limits has passed a failure
\* record to the logger and incremented the error counter, also when the
\* logger raised; a chkLimits whose value is within limits has passed
\* exactly one pass record.  (bumpError stands after logError, and a Hex
\* line of a float raises before both.)
C25_FailureLoggedAndCounted ==
    ChkLimitsRan =>
        IF OutOfLimits(args.value, args.Min, args.Max)
        THEN /\ \E i \in 1..Len(logged) : logged[i].line = "error"
             /\ errorCount = args.before + 1
        ELSE /\ Len(logged) = 1
             /\ logged[1].line = "text"

-----------------------------------------------------------------------------
(* The counter above count *)

\* the positions in io of the counter queries that returned count or more
CounterAtLeast(count) ==
    {i \in 1..Len(io) : /\ io[i].cmd = ":DATA:POIN?;"
                        /\ io[i].got # <<>>
                        /\ io[i].got[1] >= count}

\* C31: in waitOverlappedDone, once a counter query has returned count or
\* more, polling has ended (no further turn of the polling loop is due) and
\* the call does not return False without having asked for a reading, i.e.
\* it is not reported as timed out.  (The loop breaks on `measured == count`
\* only, so a counter above count keeps polling until the timeout.)
C31_CounterReachedEndsPolling ==
    (InWait /\ CounterAtLeast(args.count) # {}) =>
        /\ pc # "poll"
        /\ ~(pc = "done" /\ ReturnedFalse(result) /\ DrainRequests = {})

-----------------------------------------------------------------------------
(* The limits are exclusive *)

\* value == limit
AtLimit(value, limit) == ~Lt(value, limit) /\ ~Lt(limit, value)

\* C32: a call chkLimits(name, value, Min, Max) has returned True exactly
\* when Min < value < Max, and a call whose value equals Min or equals Max
\* has not returned True and has incremented the error counter.  (A call
\* whose logger raises returns nothing and counts nothing.)
C32_ExclusiveLimits ==
    (op = "chkLimits" /\ pc = "done" /\ ~args.Hex) =>
        /\ ReturnedTrue(result) <=> (Lt(args.Min, args.value) /\ Lt(args.value, args.Max))
        /\ (AtLimit(args.value, args.Min) \/ AtLimit(args.value, args.Max)) =>
               errorCount = args.before + 1

-----------------------------------------------------------------------------
(* A failed measurement and the limit check *)

\* the instrument call of the function in progress has reported failure:
\* readSwitch or read has returned False, or configScan has returned False
\* (it has then written nothing, and the first access to the handle is the
\* ask of DMM.read())
InstrumentFailed ==
    \/ args.value = PyFalse
    \/ op = "measureAndCheckSwich" /\ io # <<>> /\ io[1].cmd = "READ?"

\* C33: a switchAndCheck or measureAndCheckSwich that has returned and whose
\* instrument call had reported failure has logged no pass record and has
\* changed the error counter.  (The False of readSwitch is handed to
\* chkLimits as the value, where it counts as 0; the value of configScan is
\* dropped.)
C33_FailedMeasurementNeverPasses ==
    (/\ op \in {"switchAndCheck", "measureAndCheckSwich"}
     /\ pc = "done" /\ ~Raised(result)
     /\ InstrumentFailed) =>
        /\ \A i \in 1..Len(logged) : logged[i].line # "text"
        /\ errorCount # args.before

-----------------------------------------------------------------------------
(* Properties of the sources and the generator *)

InVoltSrc == op = "configVoltSrc" /\ self = "Src2722"

\* the ranges of the table whose full scale is >= currLimit
Fitting(currLimit) ==
    {i \in 1..Len(currRanges) : ~Lt(currRanges[i].full, currLimit)}

\* C34: Src2722.configVoltSrc(channel, volt, currLimit) with currLimit above
\* 0.12 A or channel outside 1..3 returns False and writes nothing;
\* otherwise it writes the voltage range, the voltage, the current range and
\* the current limit in that order, the current range being the smallest
\* range of the table whose full scale is >= currLimit, and it returns True
\* only after the four writes.
C34_SmallestCurrentRange ==
    InVoltSrc =>
        IF ~(args.channel \in 1..3) \/ Lt(Number(12, -2), args.curr)
        THEN pc = "done" /\ ReturnedFalse(result) /\ io = <<>>
        ELSE /\ ~ReturnedFalse(result)
             /\ Len(io) <= 4
             /\ \A k \in 1..Len(io) : io[k].m = "write" /\ io[k].arg.chnl = args.channel
             /\ Len(io) >= 1 =>
                    io[1].cmd \in {"VOLT:RANG R2V, <chnl>", "VOLT:RANG R20V, <chnl>"}
             /\ Len(io) >= 2 =>
                    io[2].cmd = "VOLT <volt>,<chnl>" /\ io[2].arg.val = args.volt
             /\ Len(io) >= 3 =>
                    /\ io[3].cmd = "CURR:RANG <range>,<chnl>"
                    /\ \E i \in Fitting(args.curr) :
                         /\ io[3].arg.rng = currRanges[i].name
                         /\ \A j \in Fitting(args.curr) :
                              ~Lt(currRanges[j].full, currRanges[i].full)
             /\ Len(io) >= 4 =>
                    io[4].cmd = "CURR:LIM <currLimit>,<chnl>" /\ io[4].arg.val = args.curr
             /\ ReturnedTrue(result) =>
                    Len(io) = 4 /\ \A k \in 1..4 : io[k].ok

\* a limit of 1 mA, the full scale of a range, on channel 2: the four
\* writes with range R1mA
C34_Witness ==
    /\ InVoltSrc /\ pc = "done" /\ ReturnedTrue(result)
    /\ args.channel = 2 /\ args.curr = Number(1, -3)
    /\ Len(io) = 4 /\ io[3].arg.rng = "R1mA"

\* the wrappers whose close() stands behind a test
Guarded == {"Daq34972", "Daq3706", "Src2722", "Gen33220", "SrcHameg"}

\* C35: in Daq34972, Daq3706, Src2722, Gen33220 and SrcHameg a close() that
\* follows a close() that returned True returns True, writes nothing and
\* does not raise, and after a close() that returned True the handle is
\* None.  (SrcHameg.close never clears self.opened, so its second close
\* writes to a handle that is None.)
C35_CloseIdempotent ==
    (op = "close" /\ pc = "done" /\ self \in Guarded) =>
        /\ args.again => (ReturnedTrue(result) /\ io = <<>>)
        /\ ReturnedTrue(result) => handle = "None"

\* C36: the function a Gen33220 remembers is the function last written to
\* the device with success by selectFunction, 'SIN' before any.
\* (selectFunction assigns self.function before the write.)
C36_RememberedFunctionIsWritten ==
    self = "Gen33220" => function = device

InEnable == op = "enableOutputs" /\ self \in {"SrcHameg", "Hmp4030"}

IsSelect(r, i) ==
    r.cmd \in {"INST OUTP<chnl>", "INST OUT<chnl>;"} /\ r.arg.chnl = i
IsSelection(r, on) ==
    IF on THEN r.cmd \in {"OUTP:SEL 1", "OUTP:SEL 1;"}
    ELSE r.cmd \in {"OUTP:SEL 0", "OUTP:SEL 0;"}
IsGen(r) ==
    r.cmd \in {"OUTP:GEN 1", "OUTP:GEN 0", "OUTP:GEN ON;", "OUTP:GEN OFF;"}

\* C37: enableOutputs(mask, state) of SrcHameg and Hmp4030 writes for the
\* channels 1, 2, 3 in this order the channel-select command and then the
\* selection command, with value 1 exactly when bit i - 1 of mask is set;
\* the general output command is written at most once, after the selection
\* of channel 3 and only when no write before it has raised; the call
\* returns True only after it.
C37_SelectThenGeneralOutput ==
    InEnable =>
        /\ Len(io) <= 7
        /\ \A i \in 1..3 :
             /\ Len(io) >= 2 * i - 1 => IsSelect(io[2 * i - 1], i)
             /\ Len(io) >= 2 * i =>
                    IsSelection(io[2 * i], (args.mask \div (2 ^ (i - 1))) % 2 = 1)
        /\ \A k \in 1..Len(io) :
             IsGen(io[k]) =>
                 /\ k = 7
                 /\ \A j \in 1..6 : io[j].ok
                 /\ io[k].cmd \in {"OUTP:GEN 1", "OUTP:GEN ON;"} <=> args.state
        /\ ReturnedTrue(result) => (Len(io) = 7 /\ io[7].ok)

\* mask 5 switched on: channels 1 and 3 selected, channel 2 not, then the
\* general output command
C37_Witness ==
    /\ InEnable /\ pc = "done" /\ ReturnedTrue(result)
    /\ args.mask = 5 /\ args.state
    /\ IsSelection(io[2], TRUE) /\ IsSelection(io[4], FALSE) /\ IsSelection(io[6], TRUE)
    /\ IsGen(io[7])

\* C38: a SrcHameg channel method called with a channel outside
\* 1..nrOfChannels writes nothing and ends by failing.  (The methods test
\* `channel > self.channels` only.)
C38_IllegalChannelWritesNothing ==
    (self = "SrcHameg" /\ op \in ChannelOps /\ ~(args.channel \in 1..nrOfChannels)) =>
        /\ io = <<>>
        /\ pc = "done" => (Raised(result) \/ ReturnedFalse(result))

====
